---- MODULE Spec2Model ----
(***************************************************************************)
(* Model of the ledger view of the chain-of-custody client                 *)
(* (python_client/interactive_terminal_remote.py): the gateway queries,    *)
(* the merge of the per-asset histories, the genesis anchor resolution     *)
(* and the display chain.                                                  *)
(*                                                                         *)
(* Python values are modelled as follows.  A dict is a function with a     *)
(* string domain and d.get(k, default) is Get(d, k, default).  A list is   *)
(* a sequence, a str is a string.  Values whose Python type the code       *)
(* tests (None / list / str results of a query) carry a type tag.          *)
(***************************************************************************)
EXTENDS Integers, Sequences, FiniteSets, TLC

VARIABLES
    ledger,            \* gateway: asset id -> history, newest first
    gateway,           \* gateway: asset id -> how its history query answers
    ids_reply,         \* gateway: the answer of GetAllEvidenceIDs
    toolchain,         \* orderer / configtxlator behaviour for block 0
    block_file,        \* TRUE iff genesis.block exists on the filesystem
    json_file,         \* TRUE iff genesis.json exists on the filesystem
    pc,                \* position of the client
    all_evidence_ids,  \* view_blockchain_ledger: the ids being walked
    next_id,           \* view_blockchain_ledger: index of the next id
    all_txs,           \* view_blockchain_ledger: the merged list
    genesis_info,      \* result of get_genesis_block
    rendered,          \* blocks printed by the current operation
    genesis_hash,      \* view_blockchain_ledger: the anchor hash in use
    report,            \* the closing line printed by the current operation
    exception,         \* the uncaught exception that ended the client
    genesis_calls,     \* get_genesis_block calls of the current operation
    op,                \* the operation chosen at the menu, with its input
    printed,           \* the status lines printed by the current operation
    returned,          \* the value the current operation returned
    effects,           \* the commands run and files removed by the operation
    leftover,          \* the genesis files that hold what an earlier run wrote
    fs,                \* the organizations directory of the test network
    available_orgs,    \* main: the organizations found, as (name, directory) items
    available_users,   \* main: the users listed at the last turn of the user loop
    selected_org_name, \* main: the organization chosen at login
    selected_org_domain, \* main: the directory of that organization
    selected_user,     \* main: the user chosen at login
    client,            \* main: the ChainOfCustodyClient, once constructed
    choice,            \* main: what was typed at the last login prompt
    exit_status        \* << >>, or << n >> once sys.exit(n) has ended the process

vars == << ledger, gateway, ids_reply, toolchain, block_file, json_file, pc,
           all_evidence_ids, next_id, all_txs, genesis_info, rendered,
           genesis_hash, report, exception, genesis_calls, op, printed,
           returned, effects, leftover, fs, available_orgs, available_users,
           selected_org_name, selected_org_domain, selected_user, client, choice, exit_status >>

\* what main sets before the menu
session == << fs, available_orgs, available_users, selected_org_name, selected_org_domain, selected_user, client, choice,
             exit_status >>

(***************************************************************************)
(* Bounds of the model.                                                    *)
(***************************************************************************)
MaxTx == 3          \* transactions committed on the ledger

(***************************************************************************)
(* Python helpers.                                                         *)
(***************************************************************************)
None == "None"

Get(d, k, default) == IF k \in DOMAIN d THEN d[k] ELSE default

Min(a, b) == IF a <= b THEN a ELSE b

\* s[:n] of a str
Slice(s, n) == SubSeq(s, 1, Min(Len(s), n))

PyNone == [type |-> "NoneType"]
PyList(s) == [type |-> "list", v |-> s]
PyStr(s) == [type |-> "str", v |-> s]

\* bool(x) of a query result
Truthy(x) ==
    CASE x.type = "NoneType" -> FALSE
      [] x.type = "list" -> Len(x.v) > 0
      [] x.type = "str" -> Len(x.v) > 0

\* the decimal digits
Digits == << "0", "1", "2", "3", "4", "5", "6", "7", "8", "9" >>

\* str(n) of a natural number
RECURSIVE Str(_)
Str(n) == IF n < 10 THEN Digits[n + 1] ELSE Str(n \div 10) \o Digits[(n % 10) + 1]

\* s.split(sep)[0], for a separator of one character
UpTo(s, sep) ==
    LET at == {i \in 1..Len(s) : SubSeq(s, i, i) = sep}
    IN  IF at = {} THEN s
        ELSE SubSeq(s, 1, (CHOOSE i \in at : \A j \in at : i <= j) - 1)

\* s.strip(), for a line typed with blanks around it
Strip(s) ==
    LET inked == {i \in 1..Len(s) : SubSeq(s, i, i) # " "}
    IN  IF inked = {} THEN ""
        ELSE SubSeq(s, CHOOSE i \in inked : \A j \in inked : i <= j,
                       CHOOSE i \in inked : \A j \in inked : j <= i)

\* the value of a decimal digit
DigitValue(c) == (CHOOSE d \in 1..10 : Digits[d] = c) - 1

IsDigits(s) == s # "" /\ \A i \in 1..Len(s) : \E d \in 1..10 : Digits[d] = SubSeq(s, i, i)

RECURSIVE DigitsValue(_)
DigitsValue(s) ==
    IF s = "" THEN 0
    ELSE 10 * DigitsValue(SubSeq(s, 1, Len(s) - 1)) + DigitValue(SubSeq(s, Len(s), Len(s)))

\* int(s): an optional sign and decimal digits, or ValueError
int(s) ==
    LET signed == s # "" /\ SubSeq(s, 1, 1) \in {"+", "-"}
        digits == IF signed THEN SubSeq(s, 2, Len(s)) ELSE s
    IN  IF ~IsDigits(digits) THEN [raised |-> TRUE, exc |-> "ValueError", value |-> 0]
        ELSE [raised |-> FALSE, exc |-> "",
              value |-> IF signed /\ SubSeq(s, 1, 1) = "-"
                        THEN 0 - DigitsValue(digits) ELSE DigitsValue(digits)]

UpperCase == "ABCDEFGHIJKLMNOPQRSTUVWXYZ"

LowerCase == "abcdefghijklmnopqrstuvwxyz"

\* s.lower()
RECURSIVE lower(_)
lower(s) ==
    IF s = "" THEN ""
    ELSE LET c == SubSeq(s, 1, 1)
             up == {i \in 1..26 : SubSeq(UpperCase, i, i) = c}
         IN  (IF up = {} THEN c
              ELSE LET i == CHOOSE i \in up : TRUE IN SubSeq(LowerCase, i, i))
             \o lower(SubSeq(s, 2, Len(s)))

\* the characters of the names, in the order of their code points
CodePoints == ".0123456789@" \o UpperCase \o LowerCase

CodePoint(c) == CHOOSE i \in 1..Len(CodePoints) : SubSeq(CodePoints, i, i) = c

\* a < b on str: at the first place where they differ a has the smaller
\* character, or a has ended
StrLess(a, b) ==
    \E p \in 1..Len(b) :
        /\ p <= Len(a) + 1
        /\ SubSeq(a, 1, p - 1) = SubSeq(b, 1, p - 1)
        /\ \/ p = Len(a) + 1
           \/ CodePoint(SubSeq(a, p, p)) < CodePoint(SubSeq(b, p, p))

\* sorted(names): the name at place k is the one with k - 1 names before it
Sorted(names) ==
    LET Place(i) == 1 + Cardinality({j \in 1..Len(names) :
                                        \/ StrLess(names[j], names[i])
                                        \/ names[j] = names[i] /\ j < i})
    IN  [k \in 1..Len(names) |-> names[CHOOSE i \in 1..Len(names) : Place(i) = k]]

\* word in text, of two strings
Contains(text, word) ==
    \E i \in 1..Len(text) :
        /\ i + Len(word) - 1 <= Len(text)
        /\ SubSeq(text, i, i + Len(word) - 1) = word

(***************************************************************************)
(* The ledger behind the gateway.  A history record is the dict the        *)
(* gateway returns: txId, timestamp {seconds, nanos}, isDelete and, unless *)
(* the record is a delete, the evidence snapshot.                          *)
(***************************************************************************)
AssetIds == {"A", "B"}

Owners == {"alice", "bob"}

Epoch == 17 * 100000000

TxIdPool ==
    << "95cd603fe577fa9548ec0c9b50b067566fe07c8af6acba45f6196f3a15d511f6",
       "709b55bd3da0f5a838125bd0ee20c5bfdd7caba173912d4281cae816b79a201b",
       "27ca64c092a959c7edc525ed45e845b1de6a7590d173fd2fad9133c8a779a1e3",
       "1f3cb18e896256d7d6bb8c11a6ec71f005c75de05e39beae5d93bbd1e2c8b7a9",
       "41b637cfd9eb3e2f60f734f9ca44e5c1559c6f481d49d6ed6891f3e9a086ac78",
       "a8c0cce8bb067e91cf2766c26be4e5d7cfba3d3323dc19d08a834391a1ce5acf" >>

\* what a transaction does to its asset
Kinds == {"delete", "create", "modify"}

\* how far after the previous transaction a transaction is stamped
Gaps == {"same", "nanos", "second"}

Later(ts, gap) ==
    CASE gap = "same" -> ts
      [] gap = "nanos" -> [seconds |-> ts.seconds, nanos |-> ts.nanos + 100]
      [] gap = "second" -> [seconds |-> ts.seconds + 1, nanos |-> 0]

Snapshot(kind, owner) ==
    [owner |-> owner,
     description |-> "laptop, serial 7Q2",
     location |-> "locker 4",
     status |-> "collected",
     created_at |-> "2023-11-14T22:13:20Z",
     updated_at |-> IF kind = "create" THEN "2023-11-14T22:13:20Z"
                                       ELSE "2023-11-14T22:13:21Z"]

\* a delete whose record carries a snapshot all the same: the last state of
\* the asset, or a state that looks freshly created
DeleteKinds == {"delete_modified", "delete_created"}

Record(k, kind, owner, ts) ==
    CASE kind = "delete" ->
            [txId |-> TxIdPool[k], timestamp |-> ts, isDelete |-> TRUE]
      [] kind = "delete_modified" ->
            [txId |-> TxIdPool[k], timestamp |-> ts, isDelete |-> TRUE,
             evidence |-> Snapshot("modify", owner)]
      [] kind = "delete_created" ->
            [txId |-> TxIdPool[k], timestamp |-> ts, isDelete |-> TRUE,
             evidence |-> Snapshot("create", owner)]
      [] OTHER ->
            [txId |-> TxIdPool[k], timestamp |-> ts, isDelete |-> FALSE,
             evidence |-> Snapshot(kind, owner)]

Commit ==
    {c \in [asset : AssetIds, kind : Kinds, owner : Owners, gap : Gaps] :
        c.kind = "delete" => c.owner = "alice"}

\* the commit logs of n transactions drawn from the commits C
RECURSIVE Logs(_, _)
Logs(n, C) ==
    IF n = 0 THEN {<< >>}
    ELSE {Append(l, c) : l \in Logs(n - 1, C), c \in C}

RECURSIVE StampOf(_, _)
StampOf(log, k) ==
    IF k = 0 THEN [seconds |-> Epoch, nanos |-> 0]
    ELSE Later(StampOf(log, k - 1), log[k].gap)

\* the history of an asset after a commit log, newest first
RECURSIVE HistoryOf(_, _, _)
HistoryOf(log, k, a) ==
    IF k = 0 THEN << >>
    ELSE IF log[k].asset = a
         THEN << Record(k, log[k].kind, log[k].owner, StampOf(log, k)) >>
              \o HistoryOf(log, k - 1, a)
         ELSE HistoryOf(log, k - 1, a)

LedgerOf(log) == [a \in AssetIds |-> HistoryOf(log, Len(log), a)]

\* logs that vary what the transactions do, one second apart
ClassifyLogs ==
    UNION {Logs(n, {c \in Commit : c.gap = "second"}) : n \in 0..MaxTx}

\* logs that vary when the transactions are stamped
OrderLogs ==
    UNION {Logs(n, {c \in Commit : c.kind = "create" /\ c.owner = "alice"}) :
               n \in 0..MaxTx}

(***************************************************************************)
(* The gateway.  A peer command is a subprocess: it exits zero or not and  *)
(* writes stdout and stderr.  stdout is a JSON document (json = TRUE, with *)
(* the value it denotes) or some other text.                               *)
(***************************************************************************)
Modes == {"ok", "fail", "raw", "empty"}

\* a gateway that rejects the caller, and one that fails without a word
AllModes == Modes \cup {"denied", "silent"}

JsonOut(value) == [returncode |-> 0, json |-> TRUE, value |-> value, stdout |-> "json"]

TextOut(text) == [returncode |-> 0, json |-> FALSE, stdout |-> text]

Failed(stderr) == [returncode |-> 1, json |-> FALSE, stdout |-> "", stderr |-> stderr]

Denied ==
    Failed("Error: endorsement failure during query. response: status:500 "
           \o "message:\"access denied: caller is not a member of the owning org\"")

\* peer chaincode query ... GetEvidenceHistory [ev_id]
RunHistoryQuery(ev_id) ==
    CASE gateway[ev_id] = "ok" -> JsonOut(PyList(ledger[ev_id]))
      [] gateway[ev_id] = "fail" -> Failed("Error: endorsement failure during query")
      [] gateway[ev_id] = "raw" -> TextOut("Error: could not assemble history")
      [] gateway[ev_id] = "empty" -> TextOut("")
      [] gateway[ev_id] = "denied" -> Denied
      [] gateway[ev_id] = "silent" -> Failed("")

\* peer chaincode query ... GetAllEvidenceIDs []
RunIdsQuery ==
    IF ids_reply.type = "NoneType"
    THEN Failed("Error: endorsement failure during query")
    ELSE JsonOut(ids_reply)

\* str(e) of the CalledProcessError (the argument list is left out)
StrOfError(result) ==
    "Command returned non-zero exit status " \o Str(result.returncode) \o "."

AccessDenied == "ACCESS DENIED: User does not have permission."

\* _run_peer_command with the stderr passed on whatever it says
_run_peer_command_NoMapping(result, parse_json) ==
    IF result.returncode = 0
    THEN IF parse_json /\ Len(result.stdout) > 0
         THEN IF result.json
              THEN [success |-> TRUE, data |-> result.value]
              ELSE [success |-> TRUE, data |-> PyStr(result.stdout), raw |-> TRUE]
         ELSE [success |-> TRUE, output |-> result.stdout, error |-> ""]
    ELSE [success |-> FALSE, error |-> result.stderr]

\* lines 92-107, given what the subprocess did
_run_peer_command(result, parse_json) ==
    IF result.returncode = 0
    THEN IF parse_json /\ Len(result.stdout) > 0
         THEN IF result.json
              THEN [success |-> TRUE, data |-> result.value]
              ELSE [success |-> TRUE, data |-> PyStr(result.stdout), raw |-> TRUE]
         ELSE [success |-> TRUE, output |-> result.stdout, error |-> ""]
    ELSE LET err_msg == IF result.stderr # "" THEN result.stderr ELSE StrOfError(result)
         IN  IF Contains(err_msg, "access denied")
             THEN [success |-> FALSE, error |-> AccessDenied]
             ELSE [success |-> FALSE, error |-> err_msg]

\* the argument lists of the commands (lines 109-127 and 141-167)
invoke_cmd_args(function_name, args_list) ==
    [tool |-> "peer", verb |-> "invoke", function |-> function_name, args |-> args_list]

query_cmd_args(function_name, args_list) ==
    [tool |-> "peer", verb |-> "query", function |-> function_name, args |-> args_list]

cmd_fetch == [tool |-> "peer", verb |-> "fetch", function |-> "0", args |-> << "genesis.block" >>]

cmd_decode ==
    [tool |-> "configtxlator", verb |-> "proto_decode", function |-> "common.Block",
     args |-> << "genesis.block", "genesis.json" >>]

\* the elements of a list
Range(s) == {s[k] : k \in 1..Len(s)}

\* the entries of effects
Ran(cmd) == [kind |-> "run", cmd |-> cmd]

Removed(file) == [kind |-> "remove", file |-> file]

\* query_chaincode with the raw text of a malformed answer dropped
query_chaincode_JsonOnly(result) ==
    LET r == _run_peer_command(result, TRUE)
    IN  IF r.success /\ ~Get(r, "raw", FALSE) THEN Get(r, "data", PyNone) ELSE PyNone

\* lines 128-129, given what the query command did
query_chaincode(result) ==
    LET r == _run_peer_command(result, TRUE)
    IN  IF r.success THEN Get(r, "data", PyNone) ELSE PyNone

(***************************************************************************)
(* view_blockchain_ledger, step 2: tagging the records of one history.     *)
(***************************************************************************)
Put(d, k, v) == [x \in DOMAIN d \cup {k} |-> IF x = k THEN v ELSE d[x]]

EmptyDict == [x \in {} |-> ""]

\* prev_owner read from the oldest record of the history
prev_owner_Oldest(history, idx) ==
    IF idx + 1 <= Len(history)
    THEN Get(Get(history[Len(history)], "evidence", EmptyDict), "owner", "")
    ELSE None

\* prev_owner with the empty owner for the record without predecessor
prev_owner_EmptyForOldest(history, idx) ==
    IF idx + 1 <= Len(history)
    THEN Get(Get(history[idx + 1], "evidence", EmptyDict), "owner", "")
    ELSE ""

\* prev_owner with None for a predecessor that carries no snapshot
prev_owner_NoneWithoutSnapshot(history, idx) ==
    IF idx + 1 <= Len(history) /\ "evidence" \in DOMAIN history[idx + 1]
    THEN Get(history[idx + 1].evidence, "owner", "")
    ELSE None

\* the value stored as record['prev_owner'] for history[idx] (idx from 1)
prev_owner(history, idx) ==
    IF idx + 1 <= Len(history)
    THEN Get(Get(history[idx + 1], "evidence", EmptyDict), "owner", "")
    ELSE None

\* the records of one history as they are appended to all_txs
Tagged(history, ev_id) ==
    [idx \in 1..Len(history) |->
        Put(Put(history[idx], "asset_id", ev_id),
            "prev_owner", prev_owner(history, idx))]

(***************************************************************************)
(* view_blockchain_ledger, step 3: the sort.  get_sort_key returns the     *)
(* float seconds + nanos / 1e9.  For 2^30 <= seconds < 2^31 a double has   *)
(* 22 fraction bits left, so the float is seconds + q / 2^22 with q the    *)
(* multiple nearest to nanos / 1e9; it is modelled as << whole, q >>.      *)
(***************************************************************************)
FractionBits == 2 ^ 22

\* (quot, rem) with x * 2^k = quot * 1953125 + rem, given x = quot * 1953125 + rem
RECURSIVE Doubled(_, _, _)
Doubled(quot, rem, k) ==
    IF k = 0 THEN << quot, rem >>
    ELSE Doubled(2 * quot + (IF 2 * rem >= 1953125 THEN 1 ELSE 0),
                 (2 * rem) % 1953125, k - 1)

\* nanos / 1e9 in units of 2^-22, rounded to nearest: nanos * 2^13 / 5^9
Fraction(nanos) ==
    LET d == Doubled(nanos \div 1953125, nanos % 1953125, 13)
    IN  d[1] + (IF 2 * d[2] >= 1953125 THEN 1 ELSE 0)

get_sort_key(tx) ==
    LET ts == tx.timestamp
        q == Fraction(Get(ts, "nanos", 0))
    IN  IF q = FractionBits
        THEN << Get(ts, "seconds", 0) + 1, 0 >>
        ELSE << Get(ts, "seconds", 0), q >>

\* k1 < k2 on floats
KeyLess(k1, k2) == k1[1] < k2[1] \/ (k1[1] = k2[1] /\ k1[2] < k2[2])

\* InsertSorted as an unstable sort would do it: an element goes before the
\* elements it does not compare greater than
RECURSIVE InsertSorted_BeforeEquals(_, _)
InsertSorted_BeforeEquals(sorted, tx) ==
    IF sorted = << >> THEN << tx >>
    ELSE IF ~KeyLess(get_sort_key(sorted[Len(sorted)]), get_sort_key(tx))
         THEN Append(InsertSorted_BeforeEquals(SubSeq(sorted, 1, Len(sorted) - 1), tx),
                     sorted[Len(sorted)])
         ELSE Append(sorted, tx)

\* list.sort(key=...) is stable: an element goes after the elements that do
\* not compare greater than it
RECURSIVE InsertSorted(_, _)
InsertSorted(sorted, tx) ==
    IF sorted = << >> THEN << tx >>
    ELSE IF KeyLess(get_sort_key(tx), get_sort_key(sorted[Len(sorted)]))
         THEN Append(InsertSorted(SubSeq(sorted, 1, Len(sorted) - 1), tx),
                     sorted[Len(sorted)])
         ELSE Append(sorted, tx)

\* SortTxs as a merge keyed by timestamp would do it: of the records with
\* one key only the first is kept
RECURSIVE SortTxs_OnePerKey(_)
SortTxs_OnePerKey(txs) ==
    IF txs = << >> THEN << >>
    ELSE LET before == SortTxs_OnePerKey(SubSeq(txs, 1, Len(txs) - 1))
             tx == txs[Len(txs)]
         IN  IF \E i \in 1..Len(before) : get_sort_key(before[i]) = get_sort_key(tx)
             THEN before
             ELSE InsertSorted(before, tx)

RECURSIVE SortTxs(_)
SortTxs(txs) ==
    IF txs = << >> THEN << >>
    ELSE InsertSorted(SortTxs(SubSeq(txs, 1, Len(txs) - 1)), txs[Len(txs)])

(***************************************************************************)
(* The orderer and configtxlator, as get_genesis_block sees them, and the  *)
(* decoded block documents.                                                *)
(***************************************************************************)
DataHashB64 == "+lXtWebH10cPu4oKVH01jVSNuaNGq/stijZeI69lZTk="

DataHashHex == "fa55ed59e6c7d7470fbb8a0a547d358d548db9a346abfb2d8a365e23af656539"

Envelope(ts) == [payload |-> [header |-> [channel_header |-> [timestamp |-> ts]]]]

BlockDoc(header, envelopes) ==
    [json |-> TRUE, type |-> "dict",
     v |-> [header |-> header, data |-> [data |-> envelopes]]]

IsoStamp == [type |-> "str", v |-> "2023-11-14T22:13:20.123456789Z"]

DictStamp == [type |-> "dict", v |-> [seconds |-> Epoch, nanos |-> 123456789]]

GoodBlock == BlockDoc([data_hash |-> DataHashB64], << Envelope(IsoStamp) >>)

\* the block a file left by an earlier run holds: another hash, another time
StaleHashB64 == "oD8jhq4GshEJV3AghE3zZ4V7csL8zjhMGJb+2YqJyCs="

StaleHashHex == "a03f2386ae06b21109577020844df367857b72c2fcce384c1896fed98a89c82b"

StaleBlock ==
    BlockDoc([data_hash |-> StaleHashB64],
             << Envelope([type |-> "str", v |-> "2023-11-14T22:13:59.5Z"]) >>)

\* the blocks with a timestamp and a data hash where the code looks for them
WellFormedBlocks ==
    { GoodBlock, BlockDoc([data_hash |-> DataHashB64], << Envelope(DictStamp) >>) }

BlockDocs ==
    WellFormedBlocks \cup {
      \* no envelope: IndexError
      BlockDoc([data_hash |-> DataHashB64], << >>),
      \* no channel header: KeyError
      BlockDoc([data_hash |-> DataHashB64], << [payload |-> [header |-> EmptyDict]] >>),
      \* no data hash
      BlockDoc(EmptyDict, << Envelope(IsoStamp) >>),
      \* a data hash that is not base64 (incorrect padding)
      BlockDoc([data_hash |-> "abc"], << Envelope(IsoStamp) >>),
      \* a JSON document that is not an object
      [json |-> TRUE, type |-> "list", v |-> << >>],
      \* not a JSON document
      [json |-> FALSE, type |-> "text"] }

Toolchains ==
    [fetch : {"ok", "fail"},
     tool : BOOLEAN,
     decode : {"ok", "fail", "fail_output", "no_output"},
     block : BlockDocs]

Healthy == [fetch |-> "ok", tool |-> TRUE, decode |-> "ok", block |-> GoodBlock]

(***************************************************************************)
(* get_genesis_block: extraction from the decoded block.                   *)
(***************************************************************************)
Raise(e) == [raised |-> TRUE, exc |-> e]

Value(x) == [raised |-> FALSE, value |-> x]

\* block_data['data']['data'][0]['payload']['header']['channel_header']['timestamp']
ts_raw(block_data) ==
    IF block_data.type # "dict" THEN Raise("TypeError")
    ELSE IF "data" \notin DOMAIN block_data.v THEN Raise("KeyError")
    ELSE IF "data" \notin DOMAIN block_data.v.data THEN Raise("KeyError")
    ELSE IF Len(block_data.v.data.data) = 0 THEN Raise("IndexError")
    ELSE LET env == block_data.v.data.data[1]
         IN  IF "payload" \notin DOMAIN env THEN Raise("KeyError")
             ELSE IF "header" \notin DOMAIN env.payload THEN Raise("KeyError")
             ELSE IF "channel_header" \notin DOMAIN env.payload.header
                  THEN Raise("KeyError")
             ELSE IF "timestamp" \notin DOMAIN env.payload.header.channel_header
                  THEN Raise("KeyError")
             ELSE Value(env.payload.header.channel_header.timestamp)

TwoDigits(n) == Digits[(n \div 10) + 1] \o Digits[(n % 10) + 1]

\* datetime.fromtimestamp(seconds).strftime('%Y-%m-%d %H:%M:%S'), in UTC, for
\* the seconds of the minute that starts at Epoch - 20
strftime(seconds) == "2023-11-14 22:13:" \o TwoDigits(20 + (seconds - Epoch))

\* s.replace('T', ' ')
RECURSIVE ReplaceT(_)
ReplaceT(s) ==
    IF Len(s) = 0 THEN ""
    ELSE (IF SubSeq(s, 1, 1) = "T" THEN " " ELSE SubSeq(s, 1, 1))
         \o ReplaceT(SubSeq(s, 2, Len(s)))

\* s.split('.')[0]
RECURSIVE BeforeDot(_)
BeforeDot(s) ==
    IF Len(s) = 0 \/ SubSeq(s, 1, 1) = "." THEN ""
    ELSE SubSeq(s, 1, 1) \o BeforeDot(SubSeq(s, 2, Len(s)))

\* the timestamp of the anchor (lines 192-203)
GenesisTimestamp(block_data) ==
    LET raw == ts_raw(block_data)
    IN  IF raw.raised
        THEN IF raw.exc \in {"KeyError", "IndexError", "ValueError"}
             THEN Value("Unknown Format")
             ELSE raw
        ELSE IF raw.value.type = "dict"
             THEN Value(strftime(Get(raw.value.v, "seconds", 0)))
             ELSE Value(BeforeDot(ReplaceT(raw.value.v)))

\* binascii.hexlify(base64.b64decode(s)) on the data hashes of BlockDocs
hexlify_b64decode(s) ==
    CASE s = DataHashB64 -> Value(DataHashHex)
      [] s = StaleHashB64 -> Value(StaleHashHex)
      [] s = "" -> Value("")
      [] OTHER -> Raise("binascii.Error")

\* the hash of the anchor (lines 205-213)
GenesisDataHash(block_data) ==
    IF block_data.type # "dict" THEN Raise("AttributeError")
    ELSE LET header == Get(block_data.v, "header", EmptyDict)
             data_hash_b64 == Get(header, "data_hash", "")
             hex == hexlify_b64decode(data_hash_b64)
         IN  IF hex.raised THEN Value(data_hash_b64) ELSE hex

\* the try block of get_genesis_block (lines 183-226), given genesis.json
ParseGenesis(doc) ==
    IF ~doc.json THEN [timestamp |-> "Parse Error", hash |-> "N/A"]
    ELSE LET timestamp == GenesisTimestamp(doc)
             hash == GenesisDataHash(doc)
         IN  IF timestamp.raised \/ hash.raised
             THEN [timestamp |-> "Error", hash |-> "N/A"]
             ELSE [timestamp |-> timestamp.value, hash |-> hash.value]

(***************************************************************************)
(* view_blockchain_ledger: the blocks printed for the merged list.         *)
(***************************************************************************)
\* action with the comparison of the owners before the test of the dates
action_OwnersFirst(tx) ==
    IF Get(tx, "isDelete", FALSE) THEN "DELETED"
    ELSE LET evidence == Get(tx, "evidence", EmptyDict)
         IN  IF Get(tx, "prev_owner", None) # None
                /\ Get(evidence, "owner", "") # Get(tx, "prev_owner", None)
             THEN "TRANSFERRED"
             ELSE IF Get(evidence, "created_at", "") = Get(evidence, "updated_at", "")
                  THEN "CREATED"
                  ELSE "UPDATED"

\* action with CREATED kept for the oldest record of an asset
action_CreatedOnlyWhenOldest(tx) ==
    IF Get(tx, "isDelete", FALSE) THEN "DELETED"
    ELSE LET evidence == Get(tx, "evidence", EmptyDict)
         IN  IF Get(tx, "prev_owner", None) = None
             THEN IF Get(evidence, "created_at", "") = Get(evidence, "updated_at", "")
                  THEN "CREATED"
                  ELSE "UPDATED"
             ELSE IF Get(evidence, "owner", "") # Get(tx, "prev_owner", None)
                  THEN "TRANSFERRED"
                  ELSE "UPDATED"

\* the action label of a tagged record (lines 443-457)
action(tx) ==
    IF Get(tx, "isDelete", FALSE) THEN "DELETED"
    ELSE LET evidence == Get(tx, "evidence", EmptyDict)
         IN  IF Get(evidence, "created_at", "") = Get(evidence, "updated_at", "")
             THEN "CREATED"
             ELSE IF Get(tx, "prev_owner", None) # None
                     /\ Get(evidence, "owner", "") # Get(tx, "prev_owner", None)
                  THEN "TRANSFERRED"
                  ELSE "UPDATED"

\* the rows of a block under its title: their captions, and the values of
\* the snapshot rows (lines 463-486)
Shown(evidence) ==
    [owner |-> Get(evidence, "owner", "N/A"),
     description |-> Get(evidence, "description", "N/A"),
     location |-> Get(evidence, "location", "N/A"),
     status |-> Get(evidence, "status", "N/A")]

Rows(is_delete) ==
    << "Timestamp:", "TX ID:", "Prev Hash:", "Evidence ID:" >>
    \o (IF is_delete THEN << >>
        ELSE << "Owner:", "Description:", "Location:", "Status:" >>)

\* Block with the snapshot rows printed for every record
Block_SnapshotAlways(tx, prev_hash) ==
    LET tx_id == Get(tx, "txId", "N/A")
        evidence == Get(tx, "evidence", EmptyDict)
        is_delete == Get(tx, "isDelete", FALSE)
    IN  [action |-> action(tx),
         formatted_time |-> strftime(Get(tx.timestamp, "seconds", 0)),
         tx_id |-> tx_id,
         prev_hash |-> prev_hash,
         line_tx_id |-> Slice(tx_id, 52),
         line_prev_hash |-> Slice(prev_hash, 52),
         line_evidence_id |-> Slice(Get(tx, "asset_id", "N/A"), 52),
         rows |-> Rows(FALSE),
         snapshot |-> Shown(evidence),
         owner |-> IF is_delete THEN "" ELSE Get(evidence, "owner", "N/A"),
         tx |-> tx]

\* the block printed for tx while prev_hash is the link (lines 427-486)
Block(tx, prev_hash) ==
    LET tx_id == Get(tx, "txId", "N/A")
        evidence == Get(tx, "evidence", EmptyDict)
        is_delete == Get(tx, "isDelete", FALSE)
    IN  [action |-> action(tx),
         formatted_time |-> strftime(Get(tx.timestamp, "seconds", 0)),
         tx_id |-> tx_id,
         prev_hash |-> prev_hash,
         line_tx_id |-> Slice(tx_id, 52),
         line_prev_hash |-> Slice(prev_hash, 52),
         line_evidence_id |-> Slice(Get(tx, "asset_id", "N/A"), 52),
         rows |-> Rows(is_delete),
         snapshot |-> IF is_delete THEN EmptyDict ELSE Shown(evidence),
         owner |-> IF is_delete THEN "" ELSE Get(evidence, "owner", "N/A"),
         tx |-> tx]

\* Blocks with the label taken from the entry printed just before, whatever
\* its asset
RECURSIVE BlocksAfter(_, _, _)
BlocksAfter(before, txs, prev_hash) ==
    IF txs = << >> THEN << >>
    ELSE LET seen == IF before = << >> THEN None
                     ELSE Get(Get(before[1], "evidence", EmptyDict), "owner", "")
         IN  << Block(Put(txs[1], "prev_owner", seen), prev_hash) >>
             \o BlocksAfter(<< txs[1] >>, SubSeq(txs, 2, Len(txs)),
                            Get(txs[1], "txId", "N/A"))

Blocks_GlobalPredecessor(txs, prev_hash) == BlocksAfter(<< >>, txs, prev_hash)

\* Blocks with a link that is never moved on
RECURSIVE Blocks_StaleLink(_, _)
Blocks_StaleLink(txs, prev_hash) ==
    IF txs = << >> THEN << >>
    ELSE << Block(txs[1], prev_hash) >>
         \o Blocks_StaleLink(SubSeq(txs, 2, Len(txs)), prev_hash)

\* the loop over all_txs (lines 424-489): prev_hash becomes the tx id printed
RECURSIVE Blocks(_, _)
Blocks(txs, prev_hash) ==
    IF txs = << >> THEN << >>
    ELSE << Block(txs[1], prev_hash) >>
         \o Blocks(SubSeq(txs, 2, Len(txs)), Get(txs[1], "txId", "N/A"))

\* "0" * n
RECURSIVE Zeros(_)
Zeros(n) == IF n = 0 THEN "" ELSE "0" \o Zeros(n - 1)

\* AnchorHash without the placeholder
AnchorHash_NoPlaceholder(info) == Get(info, "hash", "N/A")

\* the anchor hash the view uses (lines 409-413)
AnchorHash(info) ==
    IF Get(info, "hash", "N/A") = "N/A" THEN Zeros(56) ELSE Get(info, "hash", "N/A")

(***************************************************************************)
(* get_history: the blocks printed for the history of one asset.           *)
(***************************************************************************)
\* history_action with the test of the dates before the test of the flag
history_action_DatesFirst(data, i) ==
    LET item == data[i]
        evidence == Get(item, "evidence", EmptyDict)
    IN  IF Get(evidence, "created_at", "") = Get(evidence, "updated_at", "")
        THEN "CREATED"
        ELSE IF Get(item, "isDelete", FALSE) THEN "DELETED"
        ELSE IF i + 1 <= Len(data)
                /\ Get(evidence, "owner", "")
                     # Get(Get(data[i + 1], "evidence", EmptyDict), "owner", "")
             THEN "TRANSFERRED"
             ELSE "UPDATED"

\* history_action without the test that an older record exists: the owner
\* of the oldest record is compared with the empty owner
history_action_OldestCompared(data, i) ==
    LET item == data[i]
        evidence == Get(item, "evidence", EmptyDict)
    IN  IF Get(item, "isDelete", FALSE) THEN "DELETED"
        ELSE IF Get(evidence, "created_at", "") = Get(evidence, "updated_at", "")
             THEN "CREATED"
             ELSE LET older == IF i + 1 <= Len(data)
                               THEN Get(Get(data[i + 1], "evidence", EmptyDict),
                                        "owner", "")
                               ELSE ""
                  IN  IF Get(evidence, "owner", "") # older
                      THEN "TRANSFERRED"
                      ELSE "UPDATED"

\* the action label of data[i], i from 1 (lines 291-313)
history_action(data, i) ==
    LET item == data[i]
        evidence == Get(item, "evidence", EmptyDict)
    IN  IF Get(item, "isDelete", FALSE) THEN "DELETED"
        ELSE IF Get(evidence, "created_at", "") = Get(evidence, "updated_at", "")
             THEN "CREATED"
             ELSE LET current_owner == Get(evidence, "owner", "")
                      prev_owner_ == IF i + 1 <= Len(data)
                                     THEN Get(Get(data[i + 1], "evidence", EmptyDict),
                                              "owner", "")
                                     ELSE None
                  IN  IF prev_owner_ # None /\ current_owner # prev_owner_
                      THEN "TRANSFERRED"
                      ELSE "UPDATED"

\* the rows of a block of the history view (lines 318-340)
HistoryRows(is_delete) ==
    << "Timestamp:", "TX ID:" >>
    \o (IF is_delete THEN << >>
        ELSE << "Owner:", "Description:", "Location:", "Status:", "Tags:" >>)

\* the block printed for data[i] (lines 277-340)
HistoryBlock(data, i) ==
    LET item == data[i]
        evidence == Get(item, "evidence", EmptyDict)
        is_delete == Get(item, "isDelete", FALSE)
        tx_id == Get(item, "txId", "N/A")
    IN  [action |-> history_action(data, i),
         formatted_time |-> strftime(Get(Get(item, "timestamp", EmptyDict), "seconds", 0)),
         tx_id |-> tx_id,
         line_tx_id |-> Slice(tx_id, 52),
         rows |-> HistoryRows(is_delete),
         snapshot |-> IF is_delete THEN EmptyDict ELSE Shown(evidence),
         owner |-> IF is_delete THEN "" ELSE Get(evidence, "owner", "N/A"),
         tx |-> item]

\* the loop over data (lines 277-345)
HistoryBlocks(data) == [i \in 1..Len(data) |-> HistoryBlock(data, i)]

\* lines 273 and 348
HistoryHeader(ev_id) == "EVIDENCE HISTORY: " \o ev_id

RecordsLine(n) == "Total Records: " \o Str(n)

(***************************************************************************)
(* Initial states: a ledger, a gateway and a toolchain.                    *)
(***************************************************************************)
\* the orders in which GetAllEvidenceIDs may return the ids of a ledger
RECURSIVE Perms(_)
Perms(S) ==
    IF S = {} THEN {<< >>}
    ELSE UNION {{<< x >> \o p : p \in Perms(S \ {x})} : x \in S}

Listed(l) == {a \in AssetIds : Len(l[a]) > 0}

\* logs that vary both, one transaction shorter
MixedLogs == UNION {Logs(n, Commit) : n \in 0..(MaxTx - 1)}

\* logs of transactions one second apart, for the gateway that fails
FaultLogs ==
    UNION {Logs(n, {c \in Commit : c.kind = "create" /\ c.owner = "alice"
                                      /\ c.gap = "second"}) : n \in 0..MaxTx}

\* gateways where the history query of at most one asset does not answer
FaultyGateways ==
    {g \in [AssetIds -> Modes] :
        /\ \E a \in AssetIds : g[a] # "ok"
        /\ \A a, b \in AssetIds : g[a] # "ok" /\ g[b] # "ok" => a = b}

\* two assets with one transaction each, stamped alike
SmallLog ==
    << [asset |-> "A", kind |-> "create", owner |-> "alice", gap |-> "second"],
       [asset |-> "B", kind |-> "create", owner |-> "bob", gap |-> "same"] >>

\* logs of one asset where deletes carry a snapshot, one second apart
DeleteLogs ==
    UNION {Logs(n, {c \in [asset : {"A"}, kind : Kinds \cup DeleteKinds,
                           owner : Owners, gap : {"second"}] :
                       c.kind = "delete" => c.owner = "alice"}) : n \in 0..MaxTx}

\* logs of one asset where a snapshot may name no owner, one second apart
NoOwnerLogs ==
    {l \in UNION {Logs(n, {c \in [asset : {"A"}, kind : Kinds, owner : {"", "alice"},
                                   gap : {"second"}] :
                              c.kind = "delete" => c.owner = "alice"}) : n \in 0..MaxTx} :
        \E k \in 1..Len(l) : l[k].owner = ""}

AtMenu == [name |-> "menu"]

\* the genesis files that exist
Existing(block, json) ==
    (IF block THEN {"genesis.block"} ELSE {}) \cup (IF json THEN {"genesis.json"} ELSE {})

\* the object ChainOfCustodyClient(org_name, org_domain, username) builds
Client(org_name, org_domain, username) ==
    [org_name |-> org_name, org_domain |-> org_domain, username |-> username]

\* organizations/peerOrganizations of the test network: the entries of the
\* directory in the order os.listdir gives them, each with its users
\* directory; every entry names a directory or a file
Entry(name, is_dir) == [name |-> name, dir |-> is_dir]

UserDir(name, has_msp) == [name |-> name, dir |-> TRUE, msp |-> has_msp]

TestNetwork ==
    [exists |-> TRUE,
     orgs |-> << Entry("org1.example.com", TRUE), Entry("org2.example.com", TRUE) >>,
     users |-> [d \in {"org1.example.com", "org2.example.com"} |->
                   [exists |-> TRUE,
                    entries |-> << UserDir("User1@" \o d, TRUE),
                                   UserDir("Admin@" \o d, TRUE) >>]]]

Init ==
    /\ \/ \* any ledger, everything else in order
          /\ \E log \in ClassifyLogs \cup OrderLogs \cup MixedLogs : ledger = LedgerOf(log)
          /\ gateway = [a \in AssetIds |-> "ok"]
          /\ ids_reply \in {PyList(p) : p \in Perms(Listed(ledger))}
          /\ toolchain = Healthy
          /\ block_file = FALSE
          /\ json_file = FALSE
       \/ \* a gateway that fails
          /\ \E log \in FaultLogs : ledger = LedgerOf(log)
          /\ gateway \in FaultyGateways \cup {[a \in AssetIds |-> "ok"]}
          /\ ids_reply \in {PyList(p) : p \in Perms(Listed(ledger))}
                           \cup {PyList(<< "" >> \o p) : p \in Perms(Listed(ledger))}
                           \cup {PyNone}
          /\ toolchain = Healthy
          /\ block_file = FALSE
          /\ json_file = FALSE
       \/ \* deletes that carry a snapshot
          /\ \E log \in DeleteLogs : ledger = LedgerOf(log)
          /\ gateway = [a \in AssetIds |-> "ok"]
          /\ ids_reply = PyList(<< "A" >>)
          /\ toolchain = Healthy
          /\ block_file = FALSE
          /\ json_file = FALSE
       \/ \* snapshots that name no owner
          /\ \E log \in NoOwnerLogs : ledger = LedgerOf(log)
          /\ gateway = [a \in AssetIds |-> "ok"]
          /\ ids_reply = PyList(<< "A" >>)
          /\ toolchain = Healthy
          /\ block_file = FALSE
          /\ json_file = FALSE
       \/ \* a toolchain that fails, files left behind by an earlier run
          /\ ledger = LedgerOf(SmallLog)
          /\ gateway = [a \in AssetIds |-> "ok"]
          /\ ids_reply = PyList(<< "A", "B" >>)
          /\ toolchain \in Toolchains
          /\ block_file \in BOOLEAN
          /\ json_file \in BOOLEAN
    /\ pc = "menu"
    /\ all_evidence_ids = PyNone
    /\ next_id = 1
    /\ all_txs = << >>
    /\ genesis_info = EmptyDict
    /\ rendered = << >>
    /\ genesis_hash = ""
    /\ report = ""
    /\ exception = ""
    /\ genesis_calls = 0
    /\ op = AtMenu
    /\ printed = << >>
    /\ returned = PyNone
    /\ effects = << >>
    /\ leftover = Existing(block_file, json_file)
    /\ fs = TestNetwork
    /\ available_orgs = << << "org1", "org1.example.com" >>, << "org2", "org2.example.com" >> >>
    /\ available_users = << "Admin", "User1" >>
    /\ selected_org_name = "org1"
    /\ selected_org_domain = "org1.example.com"
    /\ selected_user = "Admin"
    /\ client = Client("org1", "org1.example.com", "Admin")
    /\ choice = "1"
    /\ exit_status = << >>

(***************************************************************************)
(* view_blockchain_ledger (lines 363-493).                                 *)
(***************************************************************************)
Return(msg) ==
    /\ pc' = "done"
    /\ report' = msg

\* step 1: the ids
ViewIds ==
    /\ pc = "menu"
    /\ all_evidence_ids' = query_chaincode(RunIdsQuery)
    /\ op' = [name |-> "view"]
    /\ IF ~Truthy(all_evidence_ids')
       THEN /\ Return("No evidence found on the ledger.")
            /\ printed' = << "Fetching all transactions... this might take a moment...",
                             "No evidence found on the ledger." >>
       ELSE /\ pc' = "fetch" /\ report' = ""
            /\ printed' = << "Fetching all transactions... this might take a moment..." >>
    /\ next_id' = 1
    /\ all_txs' = << >>
    /\ rendered' = << >>
    /\ genesis_calls' = 0
    /\ effects' = << Ran(query_cmd_args("GetAllEvidenceIDs", << >>)) >>
    /\ UNCHANGED << session, ledger, gateway, ids_reply, toolchain, block_file, json_file,
                    genesis_info, genesis_hash, exception, returned, leftover >>

\* lines 382-390 without the test of the history: a failed query raises
Appended_NoneNotSkipped(txs, history, ev_id) ==
    IF history.type # "list" THEN Raise("TypeError")
    ELSE Value(txs \o Tagged(history.v, ev_id))

\* lines 382-390: all_txs after the history of ev_id, or the exception of
\* record['asset_id'] = ev_id on a character of a str
Appended(txs, history, ev_id) ==
    IF Truthy(history)
    THEN IF history.type = "str" THEN Raise("TypeError")
         ELSE Value(txs \o Tagged(history.v, ev_id))
    ELSE Value(txs)

\* step 2, one turn of the loop over the ids
ViewHistory ==
    /\ pc = "fetch"
    /\ next_id <= Len(all_evidence_ids.v)
    /\ LET ev_id == all_evidence_ids.v[next_id]
           after == IF ev_id = "" THEN Value(all_txs)
                    ELSE Appended(all_txs, query_chaincode(RunHistoryQuery(ev_id)), ev_id)
       IN  /\ effects' = IF ev_id = "" THEN effects
                          ELSE Append(effects,
                                      Ran(query_cmd_args("GetEvidenceHistory", << ev_id >>)))
           /\ IF after.raised
              THEN /\ pc' = "crashed"
                   /\ exception' = after.exc
                   /\ UNCHANGED << all_txs, next_id >>
              ELSE /\ all_txs' = after.value
                   /\ next_id' = next_id + 1
                   /\ UNCHANGED << pc, exception >>
    /\ UNCHANGED << session, ledger, gateway, ids_reply, toolchain, block_file, json_file,
                    all_evidence_ids, genesis_info, rendered, genesis_hash,
                    report, genesis_calls, op, printed, returned, leftover >>

\* line 405
FoundLine(n, m) ==
    "Found " \o Str(n) \o " transactions across " \o Str(m) \o " assets."

\* step 3: the sort, then the call of get_genesis_block
ViewSort ==
    /\ pc = "fetch"
    /\ next_id > Len(all_evidence_ids.v)
    /\ all_txs' = SortTxs(all_txs)
    /\ IF all_txs' = << >>
       THEN /\ Return("No transactions found.")
            /\ printed' = Append(printed, "No transactions found.")
            /\ UNCHANGED genesis_calls
       ELSE /\ pc' = "genesis"
            /\ printed' = Append(printed, FoundLine(Len(all_txs'), Len(all_evidence_ids.v)))
            /\ genesis_calls' = genesis_calls + 1
            /\ UNCHANGED report
    /\ UNCHANGED << session, ledger, gateway, ids_reply, toolchain, block_file, json_file,
                    all_evidence_ids, next_id, genesis_info, rendered,
                    genesis_hash, exception, op, returned, effects, leftover >>

(***************************************************************************)
(* get_genesis_block (lines 131-226), called by view_blockchain_ledger.    *)
(***************************************************************************)
\* get_genesis_block called again when it has returned a diagnostic
GenesisReturn_Retry(info) ==
    /\ genesis_info' = info
    /\ pc' = IF info.hash = "N/A" /\ Ran(cmd_fetch) \notin Range(effects)
             THEN "genesis" ELSE "render"

\* return of get_genesis_block to line 409 of its one caller
GenesisReturn(info) ==
    /\ genesis_info' = info
    /\ pc' = "render"

\* the genesis files: which exist, and which hold what an earlier run wrote
Files == [block |-> block_file, json |-> json_file, leftover |-> leftover]

\* the os.remove calls of lines 135-138
Removals(files) ==
    (IF files.block THEN << Removed("genesis.block") >> ELSE << >>)
    \o (IF files.json THEN << Removed("genesis.json") >> ELSE << >>)

\* lines 135-138 left out: the files stay as they are
Cleared_NothingRemoved(files) == files

\* lines 135-138: the files after both are removed
Cleared(files) == [block |-> FALSE, json |-> FALSE, leftover |-> {}]

\* lines 132-153: remove what is left over, fetch block 0
GenesisFetch ==
    /\ pc = "genesis"
    /\ LET files == Cleared(Files)
           fetched == toolchain.fetch = "ok"
       IN  /\ json_file' = files.json
           /\ block_file' = (files.block \/ fetched)
           /\ leftover' = IF fetched THEN files.leftover \ {"genesis.block"}
                                     ELSE files.leftover
           /\ effects' = effects \o Removals(Files) \o << Ran(cmd_fetch) >>
    /\ IF ~block_file'
       THEN GenesisReturn([timestamp |-> "Fetch Failed", hash |-> "N/A"])
       ELSE pc' = "decode" /\ UNCHANGED genesis_info
    /\ UNCHANGED << session, ledger, gateway, ids_reply, toolchain, all_evidence_ids,
                    next_id, all_txs, rendered, genesis_hash, report, exception,
                    genesis_calls, op, printed, returned >>

\* configtxlator proto_decode --input genesis.block --output genesis.json
RunDecode ==
    CASE toolchain.decode = "ok" -> [returncode |-> 0, json |-> FALSE, stdout |-> "", output_file |-> TRUE]
      [] toolchain.decode = "no_output" -> [returncode |-> 0, json |-> FALSE, stdout |-> "", output_file |-> FALSE]
      [] toolchain.decode = "fail" ->
            Failed("configtxlator: error: bad block") @@ [output_file |-> FALSE]
      [] toolchain.decode = "fail_output" ->
            Failed("configtxlator: error: bad block") @@ [output_file |-> TRUE]

\* genesis.json and what it descends from, once configtxlator has run on
\* genesis.block
Decoded(run) ==
    IF run.output_file
    THEN [json |-> TRUE,
          leftover |-> IF "genesis.block" \in leftover THEN {"genesis.json"} ELSE {}]
    ELSE [json |-> json_file, leftover |-> leftover \ {"genesis.block"}]

\* lines 155-181: decode the block
GenesisDecode ==
    /\ pc = "decode"
    /\ IF ~toolchain.tool
       THEN /\ GenesisReturn([timestamp |-> "Tool Missing", hash |-> "N/A"])
            /\ UNCHANGED << block_file, json_file, leftover, effects >>
       ELSE LET run == RunDecode
                result == _run_peer_command(run, FALSE)
                out == Decoded(run)
            IN  /\ block_file' = FALSE
                /\ IF ~result.success
                   THEN /\ json_file' = FALSE
                        /\ leftover' = {}
                        /\ effects' = effects
                               \o << Ran(cmd_decode), Removed("genesis.block") >>
                               \o (IF out.json THEN << Removed("genesis.json") >> ELSE << >>)
                        /\ GenesisReturn([timestamp |-> "Decode Failed", hash |-> "N/A"])
                   ELSE /\ json_file' = out.json
                        /\ leftover' = out.leftover
                        /\ effects' = effects
                               \o << Ran(cmd_decode), Removed("genesis.block") >>
                        /\ IF ~json_file'
                           THEN GenesisReturn([timestamp |-> "No Output", hash |-> "N/A"])
                           ELSE pc' = "parse" /\ UNCHANGED genesis_info
    /\ UNCHANGED << session, ledger, gateway, ids_reply, toolchain, all_evidence_ids,
                    next_id, all_txs, rendered, genesis_hash, report, exception,
                    genesis_calls, op, printed, returned >>

\* what open(json_file) reads
JsonDocument == IF "genesis.json" \in leftover THEN StaleBlock ELSE toolchain.block

\* lines 183-226: load genesis.json, remove it, extract the anchor
GenesisParse ==
    /\ pc = "parse"
    /\ json_file' = FALSE
    /\ leftover' = {}
    /\ effects' = Append(effects, Removed("genesis.json"))
    /\ GenesisReturn(ParseGenesis(JsonDocument))
    /\ UNCHANGED << session, ledger, gateway, ids_reply, toolchain, block_file,
                    all_evidence_ids, next_id, all_txs, rendered, genesis_hash,
                    report, exception, genesis_calls, op, printed, returned >>

(***************************************************************************)
(* view_blockchain_ledger, lines 409-493: the anchor and the chain.        *)
(***************************************************************************)
\* line 492
TotalLine(n) == "Total Transactions: " \o Str(n)

ViewRender ==
    /\ pc = "render"
    /\ genesis_hash' = AnchorHash(genesis_info)
    /\ rendered' = Blocks(all_txs, genesis_hash')
    /\ Return(TotalLine(Len(all_txs)))
    /\ printed' = Append(printed, TotalLine(Len(all_txs)))
    /\ UNCHANGED << session, ledger, gateway, ids_reply, toolchain, block_file, json_file,
                    all_evidence_ids, next_id, all_txs, genesis_info, exception,
                    genesis_calls, op, returned, effects, leftover >>

(***************************************************************************)
(* get_history (lines 264-349): the id is typed in, the history is asked   *)
(* for and printed newest first.                                           *)
(***************************************************************************)
get_history ==
    /\ pc = "menu"
    /\ \E ev_id \in AssetIds :
          LET data == query_chaincode(RunHistoryQuery(ev_id))
          IN  /\ op' = [name |-> "history", ev_id |-> ev_id]
              /\ effects' = << Ran(query_cmd_args("GetEvidenceHistory", << ev_id >>)) >>
              /\ IF data.type # "list" \/ Len(data.v) = 0
                 THEN /\ Return("No history found or error.")
                      /\ printed' = << "No history found or error." >>
                      /\ rendered' = << >>
                 ELSE /\ Return(RecordsLine(Len(data.v)))
                      /\ printed' = << HistoryHeader(ev_id), RecordsLine(Len(data.v)) >>
                      /\ rendered' = HistoryBlocks(data.v)
    /\ UNCHANGED << session, ledger, gateway, ids_reply, toolchain, block_file, json_file,
                    all_evidence_ids, next_id, all_txs, genesis_info, genesis_hash,
                    exception, genesis_calls, returned, leftover >>

(***************************************************************************)
(* ChainOfCustodyClient.get_evidence_history of chain_of_custody_cli.py    *)
(* (lines 173-198; chain_of_custody_cli_wrapper.py, lines 195-222, is the  *)
(* same code with a mark before each message): the fetch a script calls,   *)
(* with what it prints and what it returns.                                *)
(***************************************************************************)
\* _run_peer_command of chain_of_custody_cli.py (lines 30-50)
cli_run_peer_command(result, parse_json) ==
    IF result.returncode = 0
    THEN IF parse_json /\ Len(result.stdout) > 0
         THEN IF result.json
              THEN [success |-> TRUE, data |-> result.value]
              ELSE [success |-> TRUE, data |-> PyStr(result.stdout), raw |-> TRUE]
         ELSE [success |-> TRUE, output |-> result.stdout, error |-> ""]
    ELSE [success |-> FALSE, error |-> result.stderr]

\* x or [] of a JSON value
OrEmptyList(x) == IF Truthy(x) THEN x ELSE PyList(<< >>)

\* lines 184-198: what the method prints and returns for the result of the
\* command, or the exception of result["data"]
history_fetch(result, evidence_id) ==
    IF result.success
    THEN IF Get(result, "raw", FALSE)
         THEN [printed |-> << "History for evidence " \o evidence_id \o ":",
                              result.data.v >>,
               returned |-> PyList(<< >>), exception |-> ""]
         ELSE IF "data" \notin DOMAIN result
              THEN [printed |-> << >>, returned |-> PyNone, exception |-> "KeyError"]
              ELSE [printed |-> << "Retrieved history for evidence " \o evidence_id >>,
                    returned |-> OrEmptyList(result.data), exception |-> ""]
    ELSE [printed |-> << "Failed to get history: " \o result.error >>,
          returned |-> PyList(<< >>), exception |-> ""]

get_evidence_history ==
    /\ pc = "menu"
    /\ \E evidence_id \in AssetIds :
          LET out == history_fetch(cli_run_peer_command(RunHistoryQuery(evidence_id), TRUE),
                                   evidence_id)
          IN  /\ op' = [name |-> "fetch", ev_id |-> evidence_id]
              /\ effects' = << Ran(query_cmd_args("GetEvidenceHistory", << evidence_id >>)) >>
              /\ printed' = out.printed
              /\ returned' = out.returned
              /\ exception' = out.exception
              /\ pc' = IF out.exception = "" THEN "done" ELSE "crashed"
    /\ UNCHANGED << session, ledger, gateway, ids_reply, toolchain, block_file, json_file,
                    all_evidence_ids, next_id, all_txs, genesis_info, rendered,
                    genesis_hash, report, genesis_calls, leftover >>

\* main, line 592: back to the menu
Continue ==
    /\ pc = "done"
    /\ pc' = "menu"
    /\ all_evidence_ids' = PyNone
    /\ next_id' = 1
    /\ all_txs' = << >>
    /\ genesis_info' = EmptyDict
    /\ rendered' = << >>
    /\ genesis_hash' = ""
    /\ report' = ""
    /\ genesis_calls' = 0
    /\ op' = AtMenu
    /\ printed' = << >>
    /\ returned' = PyNone
    /\ effects' = << >>
    /\ leftover' = Existing(block_file, json_file)
    /\ UNCHANGED << session, ledger, gateway, ids_reply, toolchain, block_file, json_file,
                    exception >>

Next ==
    \/ ViewIds
    \/ ViewHistory
    \/ ViewSort
    \/ GenesisFetch
    \/ GenesisDecode
    \/ GenesisParse
    \/ ViewRender
    \/ get_history
    \/ get_evidence_history
    \/ Continue

Spec == Init /\ [][Next]_vars

(***************************************************************************)
(* main of interactive_terminal_remote.py (lines 498-592; main of          *)
(* interactive_terminal.py, lines 189-281, is the same code): the login    *)
(* and the menu, over the organizations directory of the test network.     *)
(***************************************************************************)
OrgDomains == {"org1.example.com", "org2.example.com"}

\* what organizations/peerOrganizations may list
OrgListings ==
    { << >>,
      << Entry("README.md", FALSE) >>,
      << Entry("org1.example.com", TRUE) >>,
      << Entry("org2.example.com", TRUE), Entry("README.md", FALSE),
         Entry("org1.example.com", TRUE) >> }

NoUsersDir == [exists |-> FALSE, entries |-> << >>]

TwoUsers(d, admin_msp) ==
    [exists |-> TRUE,
     entries |-> << UserDir("User1@" \o d, TRUE), UserDir("Admin@" \o d, admin_msp) >>]

\* what the users directories of the two organizations may hold
UsersDirs ==
    {[d \in OrgDomains |-> IF d = "org1.example.com" THEN one ELSE two] :
        one \in {NoUsersDir, [exists |-> TRUE, entries |-> << >>],
                 TwoUsers("org1.example.com", TRUE), TwoUsers("org1.example.com", FALSE)},
        two \in {NoUsersDir, TwoUsers("org2.example.com", TRUE)}}

FileSystems ==
    {[exists |-> FALSE, orgs |-> << >>, users |-> TestNetwork.users]}
    \cup {[exists |-> TRUE, orgs |-> o, users |-> TestNetwork.users] :
             o \in {l \in OrgListings : \A i \in 1..Len(l) : ~l[i].dir}}
    \cup {[exists |-> TRUE, orgs |-> o, users |-> u] :
             o \in {l \in OrgListings : \E i \in 1..Len(l) : l[i].dir}, u \in UsersDirs}

\* the lines typed at the two login prompts
Typed == {"1", "2", "3", "0", "-1", "x", "", " 2 ", "+1"}

\* the answers typed to 'Delete <id>? (y/n): '
Answers == {"y", "Y", "n", "N", "yes", "", " y"}

\* gateways that reject or fail the commands about asset A
MainGateways ==
    {[a \in AssetIds |-> IF a = "A" THEN m ELSE "ok"] :
        m \in {"ok", "fail", "denied", "silent"}}

\* d[key] = value on a dict kept as the list of its items
SetItem(items, key, value) ==
    IF \E i \in 1..Len(items) : items[i][1] = key
    THEN [i \in 1..Len(items) |-> IF items[i][1] = key THEN << key, value >> ELSE items[i]]
    ELSE Append(items, << key, value >>)

\* list(d.keys()) and d[key]
Keys(items) == [i \in 1..Len(items) |-> items[i][1]]

Value_(items, key) == items[CHOOSE i \in 1..Len(items) : items[i][1] = key][2]

\* lines 27-32: the loop over os.listdir(orgs_path)
RECURSIVE found_orgs(_)
found_orgs(listing) ==
    IF listing = << >> THEN << >>
    ELSE LET before == found_orgs(SubSeq(listing, 1, Len(listing) - 1))
             item == listing[Len(listing)]
         IN  IF item.dir THEN SetItem(before, UpTo(item.name, "."), item.name)
             ELSE before

\* lines 21-34
get_available_orgs(base) ==
    IF ~base.exists THEN << >> ELSE found_orgs(base.orgs)

\* lines 36-49
get_available_users(base, org_domain) ==
    IF ~base.users[org_domain].exists THEN << >>
    ELSE LET dirs == SelectSeq(base.users[org_domain].entries, LAMBDA e : e.dir)
         IN  Sorted([i \in 1..Len(dirs) |-> UpTo(dirs[i].name, "@")])

\* lines 74-76: os.path.exists(self.user_msp_dir)
user_msp_dir_exists(base, org_domain, username) ==
    /\ base.users[org_domain].exists
    /\ \E e \in Range(base.users[org_domain].entries) :
          e.name = username \o "@" \o org_domain /\ e.dir /\ e.msp

\* the client before it is constructed
NoClient == Client(None, None, None)

\* a number accepted whenever Python can index the list with it
InRange_PythonIndex(idx, n) == 0 - n <= idx /\ idx < n

\* lines 520 and 545: 0 <= idx < len(list)
InRange(idx, n) == 0 <= idx /\ idx < n

\* list[idx], idx from 0 or, when negative, from the end
Item(list, idx) == IF idx >= 0 THEN list[idx + 1] ELSE list[Len(list) + idx + 1]

\* lines 517-527 and 542-551: one turn of a selection loop on the line typed
Selection(typed, options) ==
    LET parsed == int(Strip(typed))
    IN  IF parsed.raised
        THEN [chosen |-> FALSE, item |-> None, line |-> "Please enter a number."]
        ELSE IF InRange(parsed.value - 1, Len(options))
             THEN [chosen |-> TRUE, item |-> Item(options, parsed.value - 1), line |-> ""]
             ELSE [chosen |-> FALSE, item |-> None, line |-> "Invalid number."]

sys_exit(n) ==
    /\ pc' = "exited"
    /\ exit_status' = << n >>

\* what the login leaves alone
world == << ledger, gateway, ids_reply, toolchain, block_file, json_file, leftover >>

view_state == << all_evidence_ids, next_id, all_txs, genesis_info, rendered,
                 genesis_hash, report, genesis_calls, returned, exception >>

\* what the login steps leave alone
login_frame == << world, view_state, op, effects, fs >>

\* lines 499-507
main_start ==
    /\ pc = "start"
    /\ available_orgs' = get_available_orgs(fs)
    /\ IF available_orgs' = << >>
       THEN /\ printed' = << "Welcome to the Secure Evidence Ledger.",
                             "Error: Could not find any organizations." >>
            /\ sys_exit(1)
       ELSE /\ printed' = << "Welcome to the Secure Evidence Ledger." >>
            /\ pc' = "org_loop"
            /\ UNCHANGED exit_status
    /\ UNCHANGED << login_frame, available_users, selected_org_name, selected_org_domain,
                    selected_user, client, choice >>

\* lines 509-527: one turn of the organization loop, on the line typed
select_org ==
    /\ pc = "org_loop"
    /\ \E typed \in Typed :
          LET sel == Selection(typed, Keys(available_orgs))
          IN  /\ choice' = Strip(typed)
              /\ printed' = << "Select Organization:", sel.line >>
              /\ IF sel.chosen
                 THEN /\ selected_org_name' = sel.item
                      /\ selected_org_domain' = Value_(available_orgs, sel.item)
                      /\ pc' = "user_loop"
                 ELSE UNCHANGED << selected_org_name, selected_org_domain, pc >>
    /\ UNCHANGED << login_frame, available_orgs, available_users, selected_user, client,
                    exit_status >>

\* lines 529-540: a turn of the user loop up to its prompt
list_users ==
    /\ pc = "user_loop"
    /\ available_users' = get_available_users(fs, selected_org_domain)
    /\ IF available_users' = << >>
       THEN /\ printed' = << "No users found for this organization." >>
            /\ sys_exit(1)
       ELSE /\ printed' = << "Select User:" >>
            /\ pc' = "user_prompt"
            /\ UNCHANGED exit_status
    /\ UNCHANGED << login_frame, available_orgs, selected_org_name, selected_org_domain,
                    selected_user, client, choice >>

\* lines 542-551: the rest of the turn, on the line typed
select_user ==
    /\ pc = "user_prompt"
    /\ \E typed \in Typed :
          LET sel == Selection(typed, available_users)
          IN  /\ choice' = Strip(typed)
              /\ printed' = << sel.line >>
              /\ IF sel.chosen
                 THEN selected_user' = sel.item /\ pc' = "init_client"
                 ELSE UNCHANGED selected_user /\ pc' = "user_loop"
    /\ UNCHANGED << login_frame, available_orgs, available_users, selected_org_name,
                    selected_org_domain, client, exit_status >>

\* the client constructed whether the MSP directory exists or not
init_client_Unchecked ==
    /\ pc = "init_client"
    /\ client' = Client(selected_org_name, selected_org_domain, selected_user)
    /\ printed' = << "Login Successful!" >>
    /\ pc' = "menu"
    /\ UNCHANGED << login_frame, available_orgs, available_users, selected_org_name,
                    selected_org_domain, selected_user, choice, exit_status >>

\* lines 553-560, with lines 52-90
init_client ==
    /\ pc = "init_client"
    /\ IF user_msp_dir_exists(fs, selected_org_domain, selected_user)
       THEN /\ client' = Client(selected_org_name, selected_org_domain, selected_user)
            /\ printed' = << "Login Successful!" >>
            /\ pc' = "menu"
            /\ UNCHANGED exit_status
       ELSE /\ printed' = << "Error initializing client: MSP directory not found for "
                             \o selected_user >>
            /\ sys_exit(1)
            /\ UNCHANGED client
    /\ UNCHANGED << login_frame, available_orgs, available_users, selected_org_name,
                    selected_org_domain, selected_user, choice >>

\* the asset is on the ledger and not deleted
Exists(ev_id) == ledger[ev_id] # << >> /\ ~ledger[ev_id][1].isDelete

RECURSIVE Total(_)
Total(assets) ==
    IF assets = {} THEN 0
    ELSE LET a == CHOOSE a \in assets : TRUE
         IN  Len(ledger[a]) + Total(assets \ {a})

\* peer chaincode invoke ... DeleteEvidence [ev_id]
RunInvoke(ev_id) ==
    CASE gateway[ev_id] = "denied" -> Denied
      [] gateway[ev_id] = "fail" -> Failed("Error: endorsement failure during invoke")
      [] gateway[ev_id] = "silent" -> Failed("")
      [] OTHER ->
            IF Exists(ev_id)
            THEN [returncode |-> 0, json |-> FALSE, stdout |-> "",
                  stderr |-> "Chaincode invoke successful. result: status:200"]
            ELSE Failed("Error: endorsement failure during invoke. response: status:500 "
                        \o "message:\"the evidence " \o ev_id \o " does not exist\"")

\* the ledger once the delete is committed
Deleted(ev_id) ==
    LET n == Total(AssetIds)
    IN  [ledger EXCEPT ![ev_id] =
            << Record(n + 1, "delete", "alice",
                      [seconds |-> Epoch + n + 1, nanos |-> 0]) >> \o @]

\* an answer accepted with blanks around it
Confirms_Stripped(answer) == lower(Strip(answer)) = "y"

\* line 359: input(...).lower() == 'y'
Confirms(answer) == lower(answer) = "y"

\* lines 357-361
delete_evidence ==
    /\ pc = "menu"
    /\ \E ev_id \in AssetIds, answer \in Answers :
          /\ op' = [name |-> "delete", ev_id |-> ev_id, answer |-> answer]
          /\ IF Confirms(answer)
             THEN LET run == RunInvoke(ev_id)
                      result == _run_peer_command(run, FALSE)
                  IN  /\ run.returncode = 0 => Total(AssetIds) < MaxTx
                      /\ effects' = << Ran(invoke_cmd_args("DeleteEvidence", << ev_id >>)) >>
                      /\ printed' = << IF result.success THEN "Deleted."
                                       ELSE "Failed: " \o result.error >>
                      /\ ledger' = IF run.returncode = 0 THEN Deleted(ev_id) ELSE ledger
             ELSE /\ effects' = << >>
                  /\ printed' = << >>
                  /\ UNCHANGED ledger
    /\ pc' = "done"
    /\ UNCHANGED << session, gateway, ids_reply, toolchain, block_file, json_file,
                    leftover, view_state >>

\* line 587: choice "0"
exit_menu ==
    /\ pc = "menu"
    /\ op' = [name |-> "exit"]
    /\ sys_exit(0)
    /\ UNCHANGED << world, view_state, printed, effects, fs, available_orgs,
                    available_users, selected_org_name, selected_org_domain,
                    selected_user, client, choice >>

\* line 588: a choice that is none of "0" .. "8"
invalid_choice ==
    /\ pc = "menu"
    /\ op' = [name |-> "invalid"]
    /\ printed' = << "Invalid choice." >>
    /\ pc' = "done"
    /\ UNCHANGED << session, world, view_state, effects >>

MainInit ==
    /\ fs \in FileSystems
    /\ ledger = LedgerOf(SmallLog)
    /\ gateway \in MainGateways
    /\ ids_reply = PyList(<< "A", "B" >>)
    /\ toolchain = Healthy
    /\ block_file = FALSE
    /\ json_file = FALSE
    /\ pc = "start"
    /\ all_evidence_ids = PyNone
    /\ next_id = 1
    /\ all_txs = << >>
    /\ genesis_info = EmptyDict
    /\ rendered = << >>
    /\ genesis_hash = ""
    /\ report = ""
    /\ exception = ""
    /\ genesis_calls = 0
    /\ op = AtMenu
    /\ printed = << >>
    /\ returned = PyNone
    /\ effects = << >>
    /\ leftover = {}
    /\ available_orgs = << >>
    /\ available_users = << >>
    /\ selected_org_name = None
    /\ selected_org_domain = None
    /\ selected_user = None
    /\ client = NoClient
    /\ choice = ""
    /\ exit_status = << >>

MainNext ==
    \/ main_start
    \/ select_org
    \/ list_users
    \/ select_user
    \/ init_client
    \/ ViewIds
    \/ ViewHistory
    \/ ViewSort
    \/ GenesisFetch
    \/ GenesisDecode
    \/ GenesisParse
    \/ ViewRender
    \/ get_history
    \/ delete_evidence
    \/ exit_menu
    \/ invalid_choice
    \/ Continue

\* main does not stop between two prompts of the login
MainSpec ==
    /\ MainInit
    /\ [][MainNext]_vars
    /\ WF_vars(main_start)
    /\ WF_vars(list_users)
    /\ WF_vars(init_client)

(***************************************************************************)
(* Vocabulary of the claims.                                               *)
(***************************************************************************)
\* the merge step of the current view is over
Merged == op.name = "view" /\ pc \in {"genesis", "decode", "parse", "render", "done"}

\* the current view printed its chain
Rendered == op.name = "view" /\ pc = "done" /\ genesis_calls = 1

\* where the record with this transaction id sits in the asset's history
HistoryIndex(a, txid) == CHOOSE k \in 1..Len(ledger[a]) : ledger[a][k].txId = txid

\* t1 <= t2 on timestamps {seconds, nanos}
TsLeq(t1, t2) ==
    t1.seconds < t2.seconds \/ (t1.seconds = t2.seconds /\ t1.nanos <= t2.nanos)

\* the classification rule of the design (section 4.2): prev is << >> or the
\* one record that precedes entry in its asset's history
Classify(entry, prev) ==
    IF entry.isDelete THEN "DELETED"
    ELSE IF entry.evidence.created_at = entry.evidence.updated_at THEN "CREATED"
    ELSE IF /\ prev # << >>
            /\ entry.evidence.owner #
                 (IF "evidence" \in DOMAIN prev[1] THEN prev[1].evidence.owner ELSE "")
         THEN "TRANSFERRED"
         ELSE "UPDATED"

\* the record that precedes, in time, the k-th record of a newest-first history
Predecessor(history, k) == IF k < Len(history) THEN << history[k + 1] >> ELSE << >>

(***************************************************************************)
(* C1: the label of every entry of the rendered ledger is the one the      *)
(* classification rule gives for that entry and the entry that precedes it *)
(* in its own asset's history, whatever entries of other assets lie        *)
(* between them in the merged order.                                       *)
(***************************************************************************)
C1_LabelFromSameAssetPredecessor ==
    Rendered =>
        \A i \in 1..Len(rendered) :
            LET a == rendered[i].tx.asset_id
                k == HistoryIndex(a, rendered[i].tx_id)
            IN  rendered[i].action = Classify(ledger[a][k], Predecessor(ledger[a], k))

\* a transfer is rendered right after an entry of another asset whose owner
\* is the new owner
C1_Witness ==
    /\ Rendered
    /\ \E i \in 2..Len(rendered) :
          /\ rendered[i].action = "TRANSFERRED"
          /\ rendered[i - 1].tx.asset_id # rendered[i].tx.asset_id
          /\ rendered[i - 1].owner = rendered[i].owner

(***************************************************************************)
(* C2: after the merge step the list is non-decreasing by timestamp: each  *)
(* entry's timestamp is at most the timestamp of the entry after it.       *)
(***************************************************************************)
C2_MergedNonDecreasing ==
    Merged =>
        \A i \in 1..(Len(all_txs) - 1) :
            TsLeq(all_txs[i].timestamp, all_txs[i + 1].timestamp)

(***************************************************************************)
(* C3: two entries of one asset with equal timestamps appear in the merged *)
(* list in the order of the asset's history in time: the older one (later  *)
(* in the newest-first history) first.                                     *)
(***************************************************************************)
C3_SameAssetTiesChronological ==
    Merged =>
        \A i, j \in 1..Len(all_txs) :
            /\ i < j
            /\ all_txs[i].asset_id = all_txs[j].asset_id
            /\ all_txs[i].timestamp = all_txs[j].timestamp
            => HistoryIndex(all_txs[i].asset_id, all_txs[i].txId)
                 > HistoryIndex(all_txs[j].asset_id, all_txs[j].txId)

(***************************************************************************)
(* C4: two entries of different assets with equal timestamps appear in     *)
(* the merged list in the lexical order of their asset ids.                *)
(***************************************************************************)
LexLess(a, b) == << a, b >> \in {<< "A", "B" >>}

C4_TiesByAssetId ==
    Merged =>
        \A i, j \in 1..Len(all_txs) :
            /\ i < j
            /\ all_txs[i].asset_id # all_txs[j].asset_id
            /\ all_txs[i].timestamp = all_txs[j].timestamp
            => LexLess(all_txs[i].asset_id, all_txs[j].asset_id)

\* the place of an id in the list GetAllEvidenceIDs returned
Listing(a) == CHOOSE n \in 1..Len(all_evidence_ids.v) : all_evidence_ids.v[n] = a

\* What the sort does with such entries (the key holds no asset id and the
\* sort is stable): they stay in the order in which GetAllEvidenceIDs
\* returned their asset ids.
TiesByListingOrder ==
    Merged =>
        \A i, j \in 1..Len(all_txs) :
            /\ i < j
            /\ all_txs[i].asset_id # all_txs[j].asset_id
            /\ all_txs[i].timestamp = all_txs[j].timestamp
            => Listing(all_txs[i].asset_id) < Listing(all_txs[j].asset_id)

\* B was listed before A and their entries carry one timestamp
TiesByListingOrder_Witness ==
    /\ Merged
    /\ \E i, j \in 1..Len(all_txs) :
          /\ i < j
          /\ all_txs[i].asset_id = "B"
          /\ all_txs[j].asset_id = "A"
          /\ all_txs[i].timestamp = all_txs[j].timestamp

(***************************************************************************)
(* C5: in every render with at least one entry the first entry's previous  *)
(* link is the anchor's data hash, or the zero placeholder when the        *)
(* resolution reported failure, and every later entry's previous link is   *)
(* the transaction id of the entry rendered just before it; the printed    *)
(* columns, cut to 52 characters, agree in the same way.                   *)
(***************************************************************************)
ZeroPlaceholder == "00000000000000000000000000000000000000000000000000000000"

C5_ChainAdjacency ==
    Rendered /\ Len(rendered) > 0 =>
        LET anchor == IF genesis_info.hash = "N/A" THEN ZeroPlaceholder
                      ELSE genesis_info.hash
        IN  /\ rendered[1].prev_hash = anchor
            /\ rendered[1].line_prev_hash = Slice(anchor, 52)
            /\ \A i \in 2..Len(rendered) :
                  /\ rendered[i].prev_hash = rendered[i - 1].tx_id
                  /\ rendered[i].line_prev_hash = rendered[i - 1].line_tx_id
            /\ \A i \in 1..Len(rendered) :
                  /\ rendered[i].tx_id = all_txs[i].txId
                  /\ rendered[i].line_tx_id = Slice(all_txs[i].txId, 52)

\* three entries chained to a resolved anchor
C5_Witness ==
    /\ Rendered
    /\ Len(rendered) >= 3
    /\ rendered[1].prev_hash = DataHashHex
    /\ rendered[3].prev_hash = rendered[2].tx_id

(***************************************************************************)
(* C6: once get_genesis_block has returned, on whatever path, neither      *)
(* genesis.block nor genesis.json exists.                                  *)
(***************************************************************************)
C6_ArtifactsReleased == pc = "render" => ~block_file /\ ~json_file

(***************************************************************************)
(* C7: whenever the fetch of block 0, its decoding or the extraction of    *)
(* its timestamp or data hash fails, get_genesis_block returns the anchor  *)
(* with the failure sentinel as data hash and a short diagnostic as        *)
(* timestamp.                                                              *)
(***************************************************************************)
Diagnostics ==
    {"Fetch Failed", "Tool Missing", "Decode Failed", "No Output", "Parse Error",
     "Error", "Unknown Format"}

ResolutionFails ==
    ~(/\ toolchain.fetch = "ok"
      /\ toolchain.tool
      /\ toolchain.decode = "ok"
      /\ toolchain.block \in WellFormedBlocks)

C7_FailureYieldsSentinel ==
    pc = "render" /\ ResolutionFails =>
        /\ genesis_info.hash = "N/A"
        /\ genesis_info.timestamp \in Diagnostics

(***************************************************************************)
(* C8: when the resolution reports failure the view uses a string of 56    *)
(* zeros as anchor hash and still renders: every merged entry is printed,  *)
(* in order, and the first entry's previous link is that string.           *)
(***************************************************************************)
C8_PlaceholderAnchor ==
    /\ pc = "render" /\ genesis_info.hash = "N/A" => ENABLED ViewRender
    /\ Rendered /\ genesis_info.hash = "N/A" =>
          /\ genesis_hash = ZeroPlaceholder
          /\ Len(genesis_hash) = 56
          /\ Len(rendered) = Len(all_txs)
          /\ \A i \in 1..Len(rendered) : rendered[i].tx = all_txs[i]
          /\ rendered[1].prev_hash = ZeroPlaceholder

\* a chain of two entries printed after a failed resolution
C8_Witness ==
    /\ Rendered
    /\ genesis_info.hash = "N/A"
    /\ Len(rendered) >= 2
    /\ rendered[1].prev_hash = ZeroPlaceholder

(***************************************************************************)
(* C9: a history query that fails for one asset does not end the view: no  *)
(* exception is raised, and every history entry of every other listed      *)
(* asset is merged and rendered.                                           *)
(***************************************************************************)
\* the ids the view has asked the history of
Asked == {all_evidence_ids.v[n] : n \in 1..(next_id - 1)} \ {""}

\* the entries of a sequence of records that are history entries of asset a
HasAll(txs, a) ==
    \A k \in 1..Len(ledger[a]) :
        \E i \in 1..Len(txs) :
            txs[i].txId = ledger[a][k].txId /\ txs[i].asset_id = a

C9_FailedFetchSkipped ==
    (\A a \in AssetIds : gateway[a] \in {"ok", "fail"}) =>
        /\ pc # "crashed"
        /\ pc = "fetch" =>
              \A a \in Asked : gateway[a] = "ok" => HasAll(all_txs, a)
        /\ Merged =>
              \A a \in Asked : gateway[a] = "ok" => HasAll(all_txs, a)
        /\ Rendered =>
              \A a \in Asked : gateway[a] = "ok" =>
                  HasAll([i \in 1..Len(rendered) |-> rendered[i].tx], a)
        /\ pc = "done" /\ report = "No transactions found." =>
              \A a \in Asked : gateway[a] = "ok" => Len(ledger[a]) = 0

\* the query for A failed, A has a history, and B's entries are all printed
C9_Witness ==
    /\ Rendered
    /\ gateway["A"] = "fail"
    /\ gateway["B"] = "ok"
    /\ Asked = {"A", "B"}
    /\ Len(ledger["A"]) > 0
    /\ Len(rendered) = Len(ledger["B"])
    /\ Len(rendered) >= 2

(***************************************************************************)
(* C10: a history answer that is not JSON for one asset does not end the   *)
(* view: no exception is raised and the entries of the other assets are    *)
(* merged and rendered.                                                    *)
(***************************************************************************)
C10_RawHistoryDegrades ==
    (\E a \in AssetIds : gateway[a] = "raw") =>
        /\ pc # "crashed"
        /\ Rendered =>
              \A a \in Asked : gateway[a] = "ok" =>
                  HasAll([i \in 1..Len(rendered) |-> rendered[i].tx], a)

\* the assets of the listing whose history query was run and failed
FailedFetches == {a \in Asked : gateway[a] = "fail"}

(***************************************************************************)
(* C11: for every asset whose history fetch fails during a full-ledger     *)
(* view, the asset is skipped and a warning identifying that failure is    *)
(* reported with the partial result: once the merge is over, one of the    *)
(* printed lines names the asset.                                          *)
(***************************************************************************)
C11_FailedFetchWarned ==
    Merged =>
        \A a \in FailedFetches :
            \E i \in 1..Len(printed) : Contains(printed[i], a)

\* the assets of the listing whose history query answered with a list
Fetched == {a \in Asked : query_chaincode(RunHistoryQuery(a)).type = "list"}

\* the places of a sequence of records that hold this entry of asset a
Places(txs, a, txid) ==
    {i \in 1..Len(txs) : txs[i].asset_id = a /\ txs[i].txId = txid}

RECURSIVE SumLen(_)
SumLen(assets) ==
    IF assets = {} THEN 0
    ELSE LET a == CHOOSE x \in assets : TRUE
         IN  Len(ledger[a]) + SumLen(assets \ {a})

(***************************************************************************)
(* C12: the merged sequence is a permutation of the concatenation of the   *)
(* fetched histories: every entry of a fetched history is in it exactly    *)
(* once, under the asset id it was fetched for, it holds nothing else, and *)
(* the totals the view prints are the sum of the lengths of the fetched    *)
(* histories.                                                              *)
(***************************************************************************)
C12_MergeComplete ==
    Merged =>
        /\ \A a \in Fetched : \A k \in 1..Len(ledger[a]) :
               /\ Cardinality(Places(all_txs, a, ledger[a][k].txId)) = 1
               /\ \A i \in Places(all_txs, a, ledger[a][k].txId) :
                      \A f \in DOMAIN ledger[a][k] : all_txs[i][f] = ledger[a][k][f]
        /\ \A i \in 1..Len(all_txs) :
               /\ all_txs[i].asset_id \in Fetched
               /\ \E k \in 1..Len(ledger[all_txs[i].asset_id]) :
                      ledger[all_txs[i].asset_id][k].txId = all_txs[i].txId
        /\ Len(all_txs) = SumLen(Fetched)
        /\ pc \in {"genesis", "decode", "parse", "render"} =>
               printed[Len(printed)] = FoundLine(SumLen(Fetched), Len(all_evidence_ids.v))
        /\ Rendered =>
               /\ Len(rendered) = SumLen(Fetched)
               /\ \A i \in 1..Len(rendered) : rendered[i].tx = all_txs[i]
               /\ report = TotalLine(SumLen(Fetched))

\* both assets were fetched, two of the three entries have one timestamp
C12_Witness ==
    /\ Rendered
    /\ Fetched = {"A", "B"}
    /\ Len(ledger["A"]) = 2
    /\ Len(ledger["B"]) = 1
    /\ ledger["B"][1].timestamp = ledger["A"][1].timestamp
    /\ report = "Total Transactions: 3"

\* get_history printed the history of an asset the gateway answered for
HistoryShown ==
    /\ op.name = "history"
    /\ pc = "done"
    /\ gateway[op.ev_id] = "ok"
    /\ Len(ledger[op.ev_id]) > 0

\* the snapshot of a record, EmptyDict when it carries none
SnapshotOf(entry) == Get(entry, "evidence", EmptyDict)

\* a record that is not a delete and whose dates are those of a creation
LooksCreated(entry) ==
    /\ ~entry.isDelete
    /\ Get(SnapshotOf(entry), "created_at", "") = Get(SnapshotOf(entry), "updated_at", "")

(***************************************************************************)
(* C13: every entry whose isDelete flag is true is labelled DELETED in the *)
(* ledger view and in the history view, whatever snapshot it carries and   *)
(* whatever its predecessor.                                               *)
(***************************************************************************)
C13_DeleteRule ==
    /\ Rendered =>
          \A i \in 1..Len(rendered) :
              rendered[i].tx.isDelete => rendered[i].action = "DELETED"
    /\ HistoryShown =>
          /\ Len(rendered) = Len(ledger[op.ev_id])
          /\ \A k \in 1..Len(rendered) :
                 /\ rendered[k].tx = ledger[op.ev_id][k]
                 /\ ledger[op.ev_id][k].isDelete => rendered[k].action = "DELETED"

\* the history view of a delete that carries a snapshot with the dates of a
\* creation and an owner other than its predecessor's, and of a delete
\* without snapshot or predecessor
C13_Witness ==
    /\ HistoryShown
    /\ Len(rendered) = 3
    /\ rendered[1].tx.isDelete
    /\ "evidence" \in DOMAIN rendered[1].tx
    /\ rendered[1].tx.evidence.created_at = rendered[1].tx.evidence.updated_at
    /\ ~rendered[2].tx.isDelete
    /\ rendered[1].tx.evidence.owner # rendered[2].tx.evidence.owner
    /\ rendered[3].tx.isDelete
    /\ "evidence" \notin DOMAIN rendered[3].tx
    /\ rendered[1].action = "DELETED"
    /\ rendered[3].action = "DELETED"

(***************************************************************************)
(* C14: every entry that is not a delete and whose snapshot has created_at *)
(* equal to updated_at is labelled CREATED in both views, be it the oldest *)
(* record of its asset or a record with a predecessor, of whatever owner.  *)
(***************************************************************************)
C14_CreateRule ==
    /\ Rendered =>
          \A i \in 1..Len(rendered) :
              LooksCreated(rendered[i].tx) => rendered[i].action = "CREATED"
    /\ HistoryShown =>
          \A k \in 1..Len(ledger[op.ev_id]) :
              LooksCreated(ledger[op.ev_id][k]) => rendered[k].action = "CREATED"

\* the ledger view of an asset created by one owner and then again, with
\* the dates of a creation, by another
C14_Witness ==
    /\ Rendered
    /\ Len(ledger["A"]) = 2
    /\ LooksCreated(ledger["A"][1])
    /\ LooksCreated(ledger["A"][2])
    /\ ledger["A"][1].evidence.owner # ledger["A"][2].evidence.owner
    /\ \A i \in 1..Len(rendered) :
           rendered[i].tx.asset_id = "A" => rendered[i].action = "CREATED"

\* a record that is not a delete and whose dates are those of a change
LooksModified(entry) ==
    /\ ~entry.isDelete
    /\ Get(SnapshotOf(entry), "created_at", "") # Get(SnapshotOf(entry), "updated_at", "")

\* the k-th record of a newest-first history has a predecessor with a
\* snapshot of another owner / a predecessor of the same owner, where a
\* predecessor without snapshot has the owner ''
OwnerChanged(history, k) ==
    /\ k < Len(history)
    /\ "evidence" \in DOMAIN history[k + 1]
    /\ history[k + 1].evidence.owner # history[k].evidence.owner

OwnerKept(history, k) ==
    /\ k < Len(history)
    /\ Get(SnapshotOf(history[k + 1]), "owner", "") = history[k].evidence.owner

(***************************************************************************)
(* C15: in the ledger view, every entry that is not a delete, whose        *)
(* created_at differs from its updated_at and whose predecessor in its own *)
(* asset's history has a snapshot with another owner, is labelled          *)
(* TRANSFERRED.                                                            *)
(***************************************************************************)
C15_TransferRule ==
    Rendered =>
        \A i \in 1..Len(rendered) :
            LET a == rendered[i].tx.asset_id
                k == HistoryIndex(a, rendered[i].tx_id)
            IN  LooksModified(ledger[a][k]) /\ OwnerChanged(ledger[a], k)
                    => rendered[i].action = "TRANSFERRED"

\* a transfer back to the first owner: the oldest record and the newest have
\* one owner, the record between them another
C15_Witness ==
    /\ Rendered
    /\ \E a \in AssetIds :
          /\ Len(ledger[a]) = 3
          /\ LooksModified(ledger[a][1])
          /\ OwnerChanged(ledger[a], 1)
          /\ ~ledger[a][3].isDelete
          /\ ledger[a][3].evidence.owner = ledger[a][1].evidence.owner
          /\ \E i \in 1..Len(rendered) :
                 /\ rendered[i].tx_id = ledger[a][1].txId
                 /\ rendered[i].action = "TRANSFERRED"

Labels == {"CREATED", "UPDATED", "TRANSFERRED", "DELETED"}

\* the label of the k-th record of a history is UPDATED exactly when the
\* record has no predecessor or its predecessor's owner is its own
UpdateRule(history, k, label) ==
    /\ label \in Labels
    /\ LooksModified(history[k]) =>
           /\ label \in {"UPDATED", "TRANSFERRED"}
           /\ label = "UPDATED" <=> (k = Len(history) \/ OwnerKept(history, k))
    /\ label = "UPDATED" => LooksModified(history[k])

(***************************************************************************)
(* C16: in both views every entry has one of the four labels, and an entry *)
(* that is not a delete and whose created_at differs from its updated_at   *)
(* is labelled UPDATED exactly when it has no predecessor in its asset's   *)
(* history or its predecessor's owner is its own; it is TRANSFERRED        *)
(* otherwise.                                                              *)
(***************************************************************************)
C16_UpdateRule ==
    /\ Rendered =>
          \A i \in 1..Len(rendered) :
              LET a == rendered[i].tx.asset_id
              IN  UpdateRule(ledger[a], HistoryIndex(a, rendered[i].tx_id),
                             rendered[i].action)
    /\ HistoryShown =>
          \A k \in 1..Len(rendered) :
              UpdateRule(ledger[op.ev_id], k, rendered[k].action)

\* the ledger view of an asset changed without predecessor, changed again
\* by the same owner and then by another
C16_Witness ==
    /\ Rendered
    /\ Len(ledger["A"]) = 3
    /\ Len(rendered) = 3
    /\ \A k \in 1..3 : LooksModified(ledger["A"][k])
    /\ OwnerKept(ledger["A"], 2)
    /\ OwnerChanged(ledger["A"], 1)
    /\ rendered[1].action = "UPDATED"
    /\ rendered[2].action = "UPDATED"
    /\ rendered[3].action = "TRANSFERRED"

\* the k-th record of a newest-first history recreates the asset: it has the
\* dates of a creation and the record before it is a delete
Recreates(history, k) ==
    /\ k < Len(history)
    /\ history[k + 1].isDelete
    /\ LooksCreated(history[k])

(***************************************************************************)
(* C17: a record that recreates a deleted asset under the same id is       *)
(* labelled CREATED in the ledger view, never TRANSFERRED, whoever owned   *)
(* the asset before the delete, and the view of a ledger with such a       *)
(* history runs to its end: it raises nothing and, when it returns, every  *)
(* record of the ledger is rendered.                                       *)
(***************************************************************************)
C17_RecreateIsCreated ==
    (\E a \in AssetIds : \E k \in 1..Len(ledger[a]) : Recreates(ledger[a], k)) =>
        /\ Rendered =>
              \A i \in 1..Len(rendered) :
                  LET a == rendered[i].tx.asset_id
                  IN  Recreates(ledger[a], HistoryIndex(a, rendered[i].tx_id))
                          => rendered[i].action = "CREATED"
        /\ (\A a \in AssetIds : gateway[a] = "ok") =>
              /\ pc # "crashed"
              /\ exception = ""
              /\ op.name = "view" /\ pc = "done" /\ Truthy(all_evidence_ids) =>
                    Rendered /\ Len(rendered) = SumLen(Fetched)

\* created by one owner, deleted, recreated by another: all three rendered
C17_Witness ==
    /\ Rendered
    /\ Len(ledger["A"]) = 3
    /\ Recreates(ledger["A"], 1)
    /\ "evidence" \notin DOMAIN ledger["A"][2]
    /\ LooksCreated(ledger["A"][3])
    /\ ledger["A"][3].evidence.owner # ledger["A"][1].evidence.owner
    /\ Len(rendered) = 3
    /\ rendered[1].action = "CREATED"
    /\ rendered[2].action = "DELETED"
    /\ rendered[3].action = "CREATED"

(***************************************************************************)
(* C18: for every entry of every asset history, the label get_history      *)
(* prints is the label view_blockchain_ledger prints for that entry: each  *)
(* view's labels are those the other view's rule computes from the same    *)
(* history.                                                                *)
(***************************************************************************)
C18_ViewsAgree ==
    /\ HistoryShown =>
          \A k \in 1..Len(rendered) :
              rendered[k].action = action(Tagged(ledger[op.ev_id], op.ev_id)[k])
    /\ Rendered =>
          \A i \in 1..Len(rendered) :
              LET a == rendered[i].tx.asset_id
              IN  rendered[i].action
                      = history_action(ledger[a], HistoryIndex(a, rendered[i].tx_id))

\* the history view of an asset changed without predecessor, deleted and
\* changed again
C18_Witness ==
    /\ HistoryShown
    /\ Len(rendered) = 3
    /\ rendered[3].action = "UPDATED"
    /\ rendered[2].action = "DELETED"
    /\ rendered[1].action = "TRANSFERRED"
    /\ "evidence" \notin DOMAIN rendered[2].tx

\* the captions of the rows of a block
Captions(block) == {block.rows[n] : n \in 1..Len(block.rows)}

SnapshotCaptions == {"Owner:", "Description:", "Location:", "Status:"}

\* what every block shows of its entry: the label as title, the time of the
\* entry and the transaction id, cut at the width of the row
ShowsEntry(block, entry) ==
    /\ block.action \in Labels
    /\ "Timestamp:" \in Captions(block)
    /\ block.formatted_time = strftime(entry.timestamp.seconds)
    /\ "TX ID:" \in Captions(block)
    /\ block.line_tx_id = Slice(entry.txId, 52)
    /\ Len(block.line_tx_id) > 0

\* the snapshot rows are there, with the values of the entry's snapshot, when
\* the label is not DELETED, and none of them is there when it is
ShowsSnapshot(block, entry) ==
    IF block.action # "DELETED"
    THEN /\ SnapshotCaptions \subseteq Captions(block)
         /\ \A f \in {"owner", "description", "location", "status"} :
                block.snapshot[f] = entry.evidence[f]
    ELSE /\ SnapshotCaptions \cap Captions(block) = {}
         /\ block.snapshot = EmptyDict

(***************************************************************************)
(* C19: a rendered entry shows owner, description, location and status if  *)
(* and only if its label is not DELETED; the time, the label, the asset id *)
(* and the transaction id are shown for every entry: in the ledger view as *)
(* rows of the entry's block, in the history view with the asset id in the *)
(* heading of the list.                                                    *)
(***************************************************************************)
C19_SnapshotSuppressedForDeletes ==
    /\ Rendered =>
          \A i \in 1..Len(rendered) :
              LET a == rendered[i].tx.asset_id
                  entry == ledger[a][HistoryIndex(a, rendered[i].tx_id)]
              IN  /\ ShowsEntry(rendered[i], entry)
                  /\ ShowsSnapshot(rendered[i], entry)
                  /\ "Evidence ID:" \in Captions(rendered[i])
                  /\ rendered[i].line_evidence_id = a
    /\ HistoryShown =>
          /\ printed[1] = HistoryHeader(op.ev_id)
          /\ Contains(printed[1], op.ev_id)
          /\ \A k \in 1..Len(rendered) :
                 /\ ShowsEntry(rendered[k], ledger[op.ev_id][k])
                 /\ ShowsSnapshot(rendered[k], ledger[op.ev_id][k])

\* the ledger view of a delete that carries a snapshot, next to an entry that
\* is not a delete
C19_Witness ==
    /\ Rendered
    /\ \E i, j \in 1..Len(rendered) :
          /\ rendered[i].action = "DELETED"
          /\ "evidence" \in DOMAIN rendered[i].tx
          /\ Captions(rendered[i]) = {"Timestamp:", "TX ID:", "Prev Hash:", "Evidence ID:"}
          /\ rendered[j].action = "TRANSFERRED"
          /\ rendered[j].snapshot.owner = "bob"
          /\ rendered[j].snapshot.status = "collected"

\* the fetch of the history of an asset returned
Fetch(mode) == op.name = "fetch" /\ pc = "done" /\ gateway[op.ev_id] = mode

\* get_history asked for the history of an asset and returned
Asking(mode) == op.name = "history" /\ pc = "done" /\ gateway[op.ev_id] = mode

(***************************************************************************)
(* C20: a history fetch yields the empty sequence for an asset without     *)
(* history, and for a gateway command that failed an outcome the caller    *)
(* can tell from it: get_evidence_history returns something other than the *)
(* empty list, and get_history prints something other than what it prints  *)
(* for an asset without history.                                           *)
(***************************************************************************)
C20_FailureToldFromNoHistory ==
    /\ Fetch("ok") /\ ledger[op.ev_id] = << >> => returned = PyList(<< >>)
    /\ Fetch("fail") => returned # PyList(<< >>)
    /\ Asking("fail") => printed # << "No history found or error." >>

(***************************************************************************)
(* C22: the merge order respects sub-second precision: of two merged       *)
(* entries with equal seconds and different nanos the one with the smaller *)
(* nanos comes first, and two entries whose (seconds, nanos) pairs differ  *)
(* never get equal sort keys.                                              *)
(***************************************************************************)
C22_SubSecondOrder ==
    Merged =>
        \A i, j \in 1..Len(all_txs) :
            LET a == all_txs[i].timestamp
                b == all_txs[j].timestamp
            IN  /\ (a.seconds = b.seconds /\ a.nanos < b.nanos) => i < j
                /\ a # b => get_sort_key(all_txs[i]) # get_sort_key(all_txs[j])

\* where in effects block 0 was fetched: line 150, run by every call of
\* get_genesis_block
GenesisResolutions == {g \in 1..Len(effects) : effects[g] = Ran(cmd_fetch)}

\* where in effects a history was asked for
HistoryQueries ==
    {h \in 1..Len(effects) :
        /\ effects[h].kind = "run"
        /\ effects[h].cmd.function = "GetEvidenceHistory"}

\* the listed ids the loop asks the history of (line 384 skips blank ones)
AskedIds == {k \in 1..Len(all_evidence_ids.v) : all_evidence_ids.v[k] # ""}

(***************************************************************************)
(* C23 as stated: every run of view_blockchain_ledger that returns has     *)
(* resolved the genesis anchor exactly once.                               *)
(***************************************************************************)
C23_EveryRunResolvesOnce ==
    (op.name = "view" /\ pc = "done") => Cardinality(GenesisResolutions) = 1

(***************************************************************************)
(* C23, amended: a run of view_blockchain_ledger that merged at least one  *)
(* entry resolves the genesis anchor exactly once, after the histories of  *)
(* all listed ids were asked for and the entries sorted, and before any    *)
(* entry is rendered; a run that ends without entries never resolves it.   *)
(***************************************************************************)
C23_GenesisOncePerRender ==
    op.name = "view" =>
        /\ Cardinality(GenesisResolutions) =
              IF pc \in {"decode", "parse", "render"} \/ (pc = "done" /\ all_txs # << >>)
              THEN 1 ELSE 0
        /\ \A g \in GenesisResolutions :
              /\ \A h \in HistoryQueries : h < g
              /\ Cardinality(HistoryQueries) = Cardinality(AskedIds)
              /\ all_txs # << >>
              /\ all_txs = SortTxs(all_txs)
        /\ rendered # << >> => GenesisResolutions # {}
        /\ pc \in {"genesis", "decode", "parse", "render"} => rendered = << >>

\* a view of two assets rendered its chain
C23_Witness ==
    /\ op.name = "view"
    /\ pc = "done"
    /\ Len(rendered) >= 2
    /\ Cardinality(HistoryQueries) = 2
    /\ Cardinality(GenesisResolutions) = 1
    /\ \A g \in GenesisResolutions : \A h \in HistoryQueries : h < g

\* the commands the operation has run so far
Commands == {e.cmd : e \in {x \in Range(effects) : x.kind = "run"}}

\* the outcomes the query interface promises for what the command did
PromisedOutcome(run) ==
    /\ run.returncode # 0 => query_chaincode(run) = PyNone
    /\ (run.returncode = 0 /\ run.json) => query_chaincode(run) = run.value
    /\ (run.returncode = 0 /\ ~run.json) => query_chaincode(run) = PyStr(run.stdout)

\* the same, with None for a command that succeeds without output
Outcome(run) ==
    /\ run.returncode # 0 => query_chaincode(run) = PyNone
    /\ (run.returncode = 0 /\ run.json) => query_chaincode(run) = run.value
    /\ (run.returncode = 0 /\ ~run.json /\ run.stdout # "") =>
          query_chaincode(run) = PyStr(run.stdout)
    /\ (run.returncode = 0 /\ run.stdout = "") => query_chaincode(run) = PyNone

(***************************************************************************)
(* C24 as stated: query_chaincode returns None when the command fails, the *)
(* parsed value when it succeeds with valid JSON, and the raw text         *)
(* whenever it succeeds with output that is not valid JSON.                *)
(***************************************************************************)
C24_RawTextWheneverNotJson ==
    PromisedOutcome(RunIdsQuery) /\ \A a \in AssetIds : PromisedOutcome(RunHistoryQuery(a))

(***************************************************************************)
(* C24, amended: query_chaincode returns None when the command fails and   *)
(* when it succeeds without output, the parsed value when it succeeds with *)
(* valid JSON, and the raw text when it succeeds with output that is not   *)
(* valid JSON and not empty; the ids the view holds are that value; an     *)
(* operation that queries runs no command but 'peer chaincode query'.      *)
(***************************************************************************)
C24_QueryOutcome ==
    /\ Outcome(RunIdsQuery)
    /\ \A a \in AssetIds : Outcome(RunHistoryQuery(a))
    /\ op.name = "view" =>
          all_evidence_ids = IF RunIdsQuery.returncode = 0 THEN RunIdsQuery.value ELSE PyNone
    /\ op.name \in {"history", "fetch"} \/ (op.name = "view" /\ pc \in {"fetch", "crashed"}) =>
          \A cmd \in Commands : cmd.tool = "peer" /\ cmd.verb = "query"

\* get_history asked a gateway that answers with text that is not JSON
C24_Witness ==
    /\ op.name = "history"
    /\ gateway[op.ev_id] = "raw"
    /\ query_chaincode(RunHistoryQuery(op.ev_id)).type = "str"
    /\ Commands = {query_cmd_args("GetEvidenceHistory", << op.ev_id >>)}

\* the k-th record of a newest-first history comes after a delete that
\* carries no snapshot
AfterBareDelete(history, k) ==
    /\ k < Len(history)
    /\ history[k + 1].isDelete
    /\ "evidence" \notin DOMAIN history[k + 1]

\* the label of such a record whose dates differ
BareDeleteRule(history, k, label) ==
    (AfterBareDelete(history, k) /\ LooksModified(history[k])) =>
        /\ label \in {"TRANSFERRED", "UPDATED"}
        /\ label = "TRANSFERRED" <=> history[k].evidence.owner # ""

(***************************************************************************)
(* C26: in the ledger view an entry whose predecessor in its asset's       *)
(* history is a delete without snapshot gets the predecessor owner '', not *)
(* None; when its dates differ it is labelled TRANSFERRED exactly when its *)
(* own owner is not empty (in the history view as well); and the view that *)
(* merges such an entry is not ended by an exception.                      *)
(***************************************************************************)
C26_OwnerAfterBareDelete ==
    /\ op.name = "view" =>
          \A i \in 1..Len(all_txs) :
              LET a == all_txs[i].asset_id
                  k == HistoryIndex(a, all_txs[i].txId)
              IN  AfterBareDelete(ledger[a], k) =>
                      /\ all_txs[i].prev_owner = ""
                      /\ all_txs[i].prev_owner # None
    /\ Rendered =>
          \A i \in 1..Len(rendered) :
              LET a == rendered[i].tx.asset_id
              IN  BareDeleteRule(ledger[a], HistoryIndex(a, rendered[i].tx_id),
                                 rendered[i].action)
    /\ HistoryShown =>
          \A k \in 1..Len(rendered) :
              BareDeleteRule(ledger[op.ev_id], k, rendered[k].action)
    /\ (op.name = "view" /\ pc = "crashed") =>
          \E a \in AssetIds : gateway[a] # "ok"

\* the ledger view of an asset changed after a delete without snapshot,
\* once by an owner and once with no owner named
C26_Witness ==
    /\ Rendered
    /\ Len(ledger["A"]) = 3
    /\ AfterBareDelete(ledger["A"], 1)
    /\ LooksModified(ledger["A"][1])
    /\ \E i \in 1..Len(rendered) :
          /\ rendered[i].tx_id = ledger["A"][1].txId
          /\ rendered[i].tx.prev_owner = ""
          /\ rendered[i].action = "UPDATED"
          /\ rendered[i].owner = ""

FetchFailed == [timestamp |-> "Fetch Failed", hash |-> "N/A"]

(***************************************************************************)
(* C27: once get_genesis_block has fetched, neither genesis file holds     *)
(* what an earlier run wrote; when the fetch produced no block file the    *)
(* result is the 'Fetch Failed' sentinel; and the result is never the hash *)
(* and time of a block left behind by an earlier run.                      *)
(***************************************************************************)
C27_NoStaleGenesis ==
    (op.name = "view" /\ GenesisResolutions # {}) =>
        /\ leftover = {}
        /\ pc \in {"render", "done"} =>
              /\ toolchain.fetch # "ok" => genesis_info = FetchFailed
              /\ genesis_info.hash # StaleHashHex
              /\ genesis_info # ParseGenesis(StaleBlock)

\* both files of an earlier run were removed before a fetch that failed
C27_Witness ==
    /\ op.name = "view"
    /\ pc = "done"
    /\ toolchain.fetch # "ok"
    /\ genesis_info = FetchFailed
    /\ \E g \in GenesisResolutions :
          \E b, j \in 1..(g - 1) :
              /\ effects[b] = Removed("genesis.block")
              /\ effects[j] = Removed("genesis.json")

(***************************************************************************)
(* Vocabulary of the claims about main.                                    *)
(***************************************************************************)
\* peerOrganizations is absent or holds no organization
NoOrganizations == get_available_orgs(fs) = << >>

\* the selected organization has no user directories
NoUsers ==
    /\ selected_org_name # None
    /\ get_available_users(fs, selected_org_domain) = << >>

\* the MSP directory of the selected user is missing
NoMsp ==
    /\ selected_user # None
    /\ ~user_msp_dir_exists(fs, selected_org_domain, selected_user)

MissingDirectories == NoOrganizations \/ NoUsers \/ NoMsp

\* no client, no menu operation and no command so far
NothingDispatched ==
    /\ client = NoClient
    /\ op = AtMenu
    /\ effects = << >>
    /\ pc \in {"start", "org_loop", "user_loop", "user_prompt", "init_client", "exited"}

ExitedWith(n) == pc = "exited" /\ exit_status = << n >>

(***************************************************************************)
(* C21: a run in which peerOrganizations is absent or holds no             *)
(* organization, the selected organization has no user directories or the  *)
(* selected user's MSP directory is missing dispatches no menu operation   *)
(* and no gateway command, and it ends with exit status 1.                 *)
(***************************************************************************)
C21_MissingDirectoriesExit ==
    /\ [](MissingDirectories =>
            /\ NothingDispatched
            /\ pc = "exited" => exit_status = << 1 >>)
    /\ MissingDirectories ~> ExitedWith(1)

\* the user chosen has no MSP directory: the client was not constructed
C21_Witness ==
    /\ ExitedWith(1)
    /\ selected_org_name = "org1"
    /\ selected_user = "Admin"
    /\ NoMsp
    /\ NothingDispatched

\* the diagnostics of a command that exited non-zero: its stderr, or the
\* text of the exception when stderr is empty
Diagnostics_(run) == IF run.stderr # "" THEN run.stderr ELSE StrOfError(run)

\* what _run_peer_command is to return for what the command did
Mapped(run, parse_json) ==
    LET result == _run_peer_command(run, parse_json)
    IN  /\ result.success <=> run.returncode = 0
        /\ run.returncode # 0 =>
              result.error = IF Contains(Diagnostics_(run), "access denied")
                             THEN "ACCESS DENIED: User does not have permission."
                             ELSE Diagnostics_(run)

\* the delete asked for was confirmed and submitted
Submitted == op.name = "delete" /\ effects # << >>

(***************************************************************************)
(* C25: a gateway command that exits non-zero with 'access denied' in its  *)
(* diagnostics gives success false and the fixed error 'ACCESS DENIED:     *)
(* User does not have permission.'; any other non-zero exit gives success  *)
(* false and the stderr, or the exception text when stderr is empty;       *)
(* success is true exactly when the command exited zero.  delete_evidence  *)
(* prints that error after 'Failed: ', and 'Deleted.' when the command     *)
(* exited zero.                                                            *)
(***************************************************************************)
C25_AccessDeniedMapping ==
    /\ \A a \in AssetIds, parse_json \in BOOLEAN :
          Mapped(RunHistoryQuery(a), parse_json) /\ Mapped(RunInvoke(a), parse_json)
    /\ Submitted =>
          CASE gateway[op.ev_id] = "denied" ->
                  printed = << "Failed: ACCESS DENIED: User does not have permission." >>
            [] gateway[op.ev_id] = "silent" ->
                  printed = << "Failed: Command returned non-zero exit status 1." >>
            [] gateway[op.ev_id] = "fail" ->
                  printed = << "Failed: Error: endorsement failure during invoke" >>
            [] OTHER ->
                  \/ printed = << "Deleted." >> /\ ledger[op.ev_id][1].isDelete
                  \/ printed = << "Failed: " \o RunInvoke(op.ev_id).stderr >>

\* a delete the gateway rejected for lack of permission
C25_Witness ==
    /\ Submitted
    /\ gateway[op.ev_id] = "denied"
    /\ Contains(RunInvoke(op.ev_id).stderr, "access denied")
    /\ printed = << "Failed: ACCESS DENIED: User does not have permission." >>

\* the command that submits the delete of an asset
SubmitDelete(ev_id) == Ran(invoke_cmd_args("DeleteEvidence", << ev_id >>))

(***************************************************************************)
(* C28: delete_evidence submits DeleteEvidence only when the answer to the *)
(* confirmation prompt, lowercased, is exactly 'y' (and then it submits    *)
(* it, for the id typed); with any other answer it runs no command and the *)
(* ledger stays as it is.  No step changes the ledger but a confirmed      *)
(* delete.                                                                 *)
(***************************************************************************)
C28_DeleteNeedsConfirmation ==
    /\ [](op.name = "delete" =>
            IF lower(op.answer) = "y"
            THEN effects = << SubmitDelete(op.ev_id) >>
            ELSE effects = << >>)
    /\ [][(op'.name = "delete" /\ lower(op'.answer) # "y") => ledger' = ledger]_vars
    /\ [][ledger' # ledger =>
            /\ op'.name = "delete"
            /\ lower(op'.answer) = "y"
            /\ effects' = << SubmitDelete(op'.ev_id) >>]_vars

\* a delete confirmed with a capital Y and committed
C28_Witness ==
    /\ op.name = "delete"
    /\ op.answer = "Y"
    /\ effects = << SubmitDelete(op.ev_id) >>
    /\ printed = << "Deleted." >>
    /\ ledger[op.ev_id][1].isDelete

\* the line typed parses to a number from 1 to n
Valid(line, n) == ~int(line).raised /\ 1 <= int(line).value /\ int(line).value <= n

(***************************************************************************)
(* C29: the organization loop and the user loop end only on a typed line   *)
(* that parses to a number n from 1 to the number of options listed, and   *)
(* then with the n-th option selected; on any other line the loop prompts  *)
(* again and the selection stays as it was; the client is constructed for  *)
(* an organization and a user that get_available_orgs and                  *)
(* get_available_users list.                                               *)
(***************************************************************************)
C29_LoginSelectsListed ==
    /\ [][pc = "org_loop" =>
            /\ pc' \in {"org_loop", "user_loop"}
            /\ pc' = "user_loop" =>
                  /\ Valid(choice', Len(available_orgs))
                  /\ selected_org_name' = available_orgs[int(choice').value][1]
                  /\ selected_org_domain' = available_orgs[int(choice').value][2]
            /\ pc' = "org_loop" =>
                  /\ ~Valid(choice', Len(available_orgs))
                  /\ UNCHANGED << selected_org_name, selected_org_domain >>]_vars
    /\ [][pc = "user_prompt" =>
            /\ pc' \in {"user_prompt", "user_loop", "init_client"}
            /\ pc' = "init_client" =>
                  /\ Valid(choice', Len(available_users))
                  /\ selected_user' = available_users[int(choice').value]
            /\ pc' = "user_loop" =>
                  /\ ~Valid(choice', Len(available_users))
                  /\ UNCHANGED selected_user]_vars
    /\ [](client # NoClient =>
            /\ << client.org_name, client.org_domain >> \in Range(get_available_orgs(fs))
            /\ client.username \in Range(get_available_users(fs, client.org_domain)))

\* the second user of the organization listed first
C29_Witness ==
    /\ pc = "menu"
    /\ client = Client("org2", "org2.example.com", "User1")
    /\ choice = "2"
    /\ Keys(available_orgs) = << "org2", "org1" >>
    /\ available_users = << "Admin", "User1" >>

====
